---- MODULE Spec2Model ----
(***************************************************************************)
(* Model of the videobgremover-node composition engine.                    *)
(*                                                                         *)
(* Objects live in heaps (sequences indexed by object id):                 *)
(*   bgs    Background instances (backgrounds.ts)                          *)
(*   fgs    Foreground instances (foreground.ts)                           *)
(*   layers LayerDict records (composition.ts, Composition.add)            *)
(*   comps  Composition instances; a composition holds a list of layer ids *)
(*          so that copies made by setCanvas / setDuration share records.  *)
(*   handles LayerHandle instances <<composition id, idx>>                 *)
(* Optional values (undefined in the source) are <<>> and <<v>>.           *)
(* Times are counted in ticks of 1/2000 second so that                     *)
(* Math.floor(start * 1000) has something to round.                        *)
(* Volumes and opacities are counted in hundredths.                        *)
(***************************************************************************)
EXTENDS Integers, Sequences, FiniteSets, TLC

VARIABLES bgs, fgs, layers, comps, handles, ret, calls, runs, spawned, progress, proc,
          now, waits, wt, imp, disk, tempFiles, temps

\* The media objects, the compositions and the export in progress
mediaVars == <<bgs, fgs, layers, comps, handles, ret, calls, runs, spawned, progress, proc>>
\* The files on disk, the MediaContext's registry of temp files and the
\* number of temp names handed out
fileVars == <<disk, tempFiles, temps>>
\* The clock, the API client's wait call, the importer and the files
apiVars == <<now, waits, wt, imp, fileVars>>

vars == <<mediaVars, apiVars>>

\* ---------------------------------------------------------------- bounds
\* layers added in one run
MaxLayers == 3
\* builder calls (add and LayerHandle methods) in one run
MaxCalls == 4
\* Composition instances (the first one and the copies)
MaxComps == 2
\* Background / Foreground instances (the assets and the derived copies)
MaxBgs == 8
MaxFgs == 8
\* exports started in one run
MaxRuns == 1
\* pieces of text a media-tool process writes to its error stream
MaxChunks == 2
\* wait calls made in one run
MaxWaits == 1
\* removeBackground calls made in one run
MaxImports == 1
\* temp names handed out in one run
MaxTemps == 3
\* status requests one wait call makes
MaxPolls == 4

\* ---------------------------------------------------------------- units
TicksPerMs == 2
TicksPerSecond == 1000 * TicksPerMs

Sec(n) == n * TicksPerSecond

None == <<>>
Some(v) == <<v>>
IsSome(o) == o # <<>>
Get(o) == o[1]

Min(a, b) == IF a < b THEN a ELSE b
Max(a, b) == IF a > b THEN a ELSE b

\* The number NaN, which a caller may pass wherever a number is expected; it
\* is kept apart from every number the model computes with.
NaN == -1000000000

\* Math.min and Math.max: NaN if either operand is NaN
MathMin(a, b) == IF a = NaN \/ b = NaN THEN NaN ELSE Min(a, b)
MathMax(a, b) == IF a = NaN \/ b = NaN THEN NaN ELSE Max(a, b)

\* Math.max(0.0, Math.min(1.0, v)) on hundredths
Clamp01(v) == MathMax(0, MathMin(100, v))

\* ------------------------------------------------------------ VideoSource
\* What ffprobe reports for each asset on disk (streams / format.duration).
\* duration is <<>> (absent), <<"number", n>> or <<"string", ok, n>> where a
\* string that parseFloat cannot read has ok = FALSE.
ProbeResult(path) ==
  CASE path = "fg.webm" ->
         [ok |-> TRUE, codec_name |-> "vp9", duration |-> <<"string", TRUE, Sec(5)>>,
          streams |-> <<"video", "audio">>]
    [] path = "fg.mov" ->
         [ok |-> TRUE, codec_name |-> "prores", duration |-> <<"number", Sec(3)>>,
          streams |-> <<"video">>]
    [] path = "rgb.mp4" ->
         [ok |-> TRUE, codec_name |-> "h264", duration |-> <<"string", FALSE, 0>>,
          streams |-> <<"video", "audio">>]
    [] path = "stacked.mp4" ->
         [ok |-> FALSE, codec_name |-> "unknown", duration |-> <<>>, streams |-> <<>>]
    [] path = "bg.mp4" ->
         [ok |-> TRUE, codec_name |-> "h264", duration |-> <<"string", TRUE, Sec(20)>>,
          streams |-> <<"video", "audio">>]
    [] path = "bg_silent.webm" ->
         [ok |-> TRUE, codec_name |-> "vp9", duration |-> <<"number", 0>>,
          streams |-> <<"video">>]
    [] OTHER ->
         [ok |-> FALSE, codec_name |-> "unknown", duration |-> <<>>, streams |-> <<>>]

\* VideoSource._fallbackInfo
_fallbackInfo(path) ==
  [codec_name |-> "unknown", duration |-> <<>>, streams |-> None, original_source |-> path]

\* VideoSource._probeVideoInfo / probeAndStore: the probed record, or the
\* fallback record when the probe fails or finds no video stream.
_probeVideoInfo(path) ==
  LET r == ProbeResult(path) IN
  IF ~r.ok \/ ~(\E i \in 1..Len(r.streams) : r.streams[i] = "video")
  THEN _fallbackInfo(path)
  ELSE [codec_name |-> r.codec_name, duration |-> r.duration,
        streams |-> Some(r.streams), original_source |-> path]

\* JavaScript truthiness of the duration field
DurationTruthy(d) ==
  /\ d # <<>>
  /\ (d[1] = "number" => d[2] # 0)

\* VideoSource.getDuration on an optional _videoInfo: <<>> is undefined
getDuration(info) ==
  IF IsSome(info) /\ DurationTruthy(Get(info).duration)
  THEN LET d == Get(info).duration IN
       IF d[1] = "string"
       THEN (IF d[2] THEN Some(d[3]) ELSE None)
       ELSE Some(d[2])
  ELSE None

\* VideoSource.hasAudioStreams
hasAudioStreams(info) ==
  IF IsSome(info) /\ IsSome(Get(info).streams)
  THEN \E i \in 1..Len(Get(Get(info).streams)) : Get(Get(info).streams)[i] = "audio"
  ELSE FALSE

\* VideoSource.getDecoderArgs
getDecoderArgs(info, webmSupport) ==
  IF ~IsSome(info) THEN <<>>
  ELSE IF Get(info).codec_name = "vp9" /\ webmSupport
       THEN << <<"s", "-c:v">>, <<"s", "libvpx-vp9">> >>
       ELSE <<>>

\* ------------------------------------------------------------- Foreground
\* new Foreground(format, primaryPath, options)
NewForeground(format, primaryPath, maskPath, audioPath, sourceTrim) ==
  [format |-> format, primaryPath |-> primaryPath, maskPath |-> maskPath,
   audioPath |-> audioPath, sourceTrim |-> sourceTrim, _videoInfo |-> None]

probeAndStore(fg, path) == [fg EXCEPT !._videoInfo = Some(_probeVideoInfo(path))]

fromWebmVp9(path) == probeAndStore(NewForeground("webm_vp9", path, None, None, None), path)
fromMovProres(path) == probeAndStore(NewForeground("mov_prores", path, None, None, None), path)
fromPngSequence(path) == NewForeground("png_sequence", path, None, None, None)
fromVideoAndMask(videoPath, maskPath, audioPath) ==
  probeAndStore(NewForeground("pro_bundle", videoPath, Some(maskPath), audioPath, None), videoPath)
fromStackedVideo(path) == probeAndStore(NewForeground("stacked_video", path, None, None, None), path)

\* fg.matte: the class declares no such property and the constructor sets
\* none, so the read gives undefined
Foreground_matte(fg) == None

\* A subclip that composes with the receiver's trim instead of overwriting it
SubclipComposed(fg, start, end) ==
  LET base == IF IsSome(fg.sourceTrim) THEN Get(fg.sourceTrim)[1] ELSE 0 IN
  NewForeground(fg.format, fg.primaryPath, fg.maskPath, fg.audioPath,
                Some(<<base + start, IF IsSome(end) THEN Some(base + Get(end)) ELSE None>>))

\* A subclip that hands the receiver's probed metadata to the new instance
SubclipKeepsInfo(fg, start, end) ==
  [NewForeground(fg.format, fg.primaryPath, fg.maskPath, fg.audioPath, Some(<<start, end>>))
     EXCEPT !._videoInfo = fg._videoInfo]

\* Foreground.subclip: a new instance, built by the constructor
Foreground_subclip(fg, start, end) ==
  NewForeground(fg.format, fg.primaryPath, fg.maskPath, fg.audioPath, Some(<<start, end>>))

\* ------------------------------------------------------------- Background
\* BaseBackground constructor and the four subclasses' constructors
NewBackground(kind, width, height, fps, audioEnabled, audioVolume) ==
  [kind |-> kind, width |-> width, height |-> height, fps |-> fps,
   audioEnabled |-> audioEnabled, audioVolume |-> Clamp01(audioVolume),
   color |-> None, source |-> None, sourceTrim |-> None,
   videoSource |-> None, _videoInfo |-> None]

ColorBackground(color, w, h, fps, en, vol) ==
  [NewBackground("color", w, h, fps, en, vol) EXCEPT !.color = Some(color)]
ImageBackground(source, w, h, fps, en, vol) ==
  [NewBackground("image", w, h, fps, en, vol) EXCEPT !.source = Some(source)]
VideoBackground(source, w, h, fps, en, vol, trim) ==
  [NewBackground("video", w, h, fps, en, vol) EXCEPT !.source = Some(source), !.sourceTrim = trim]
EmptyBackground(w, h, fps, en, vol) == NewBackground("empty", w, h, fps, en, vol)

\* Background.fromVideo: dimensions are probed, then the VideoSource's info is
\* stored in the private videoSource member through _setVideoInfo.
fromVideo(path, w, h, fps) ==
  [VideoBackground(path, w, h, fps, TRUE, 100, None)
     EXCEPT !.videoSource = Some(_probeVideoInfo(path))]

\* VideoBackground.getDuration / BaseBackground 'getDuration' in this
Background_getDuration(bg) == getDuration(bg.videoSource)

\* BaseBackground.hasAudio and the VideoBackground override
hasAudio(bg) == IF bg.kind = "video" THEN hasAudioStreams(bg.videoSource) ELSE FALSE

controlsDuration(bg) == bg.kind = "video"

\* BaseBackground.audio: the copy made for each subclass.  The video branch
\* copies the instance's own _videoInfo property into the new instance's own
\* _videoInfo property; the probed record itself lives in videoSource.
Background_audio(bg, enabled, volume) ==
  LET clampedVolume == Clamp01(volume) IN
  CASE bg.kind = "video" ->
         LET newBg == VideoBackground(Get(bg.source), bg.width, bg.height, bg.fps,
                                      enabled, clampedVolume, bg.sourceTrim)
         IN IF IsSome(bg._videoInfo)
            THEN [newBg EXCEPT !._videoInfo = bg._videoInfo]
            ELSE newBg
    [] bg.kind = "image" ->
         ImageBackground(Get(bg.source), bg.width, bg.height, bg.fps, enabled, clampedVolume)
    [] bg.kind = "color" ->
         ColorBackground(Get(bg.color), bg.width, bg.height, bg.fps, enabled, clampedVolume)
    [] OTHER ->
         EmptyBackground(bg.width, bg.height, bg.fps, enabled, clampedVolume)

\* VideoBackground.subclip
VideoBackground_subclip(bg, start, end) ==
  [VideoBackground(Get(bg.source), bg.width, bg.height, bg.fps,
                   bg.audioEnabled, bg.audioVolume, Some(<<start, end>>))
     EXCEPT !.videoSource = bg.videoSource]

\* ------------------------------------------------------------ Composition
\* new Composition(background, ctx)
NewCompositionRec(background) ==
  [background |-> background, layers |-> <<>>, canvasHint |-> None, explicitDuration |-> None]

\* The LayerDict built by Composition.add for the n-th layer (n from 0)
NewLayer(fg, name, n) ==
  [name |-> IF IsSome(name) THEN name ELSE <<"layer", n>>,
   fg |-> fg, anchor |-> "center", dx |-> 0, dy |-> 0,
   x_expr |-> None, y_expr |-> None,
   size |-> <<"contain", None, None, None, None>>,
   opacity |-> 100, rotate |-> 0, crop |-> None,
   comp_start |-> None, comp_end |-> None, comp_duration |-> None,
   source_trim |-> None,
   audio_enabled |-> TRUE, audio_volume |-> 100,
   alpha_enabled |-> TRUE, z |-> n]

\* The layer records of a composition, in add order
LayersOf(c) == [i \in 1..Len(c.layers) |-> layers[c.layers[i]]]

\* A resolution that asks the explicit canvas before the background
CanvasHintFirst(c) ==
  IF IsSome(c.canvasHint)
  THEN [ok |-> TRUE, size |-> Get(c.canvasHint)]
  ELSE IF /\ IsSome(c.background)
          /\ bgs[Get(c.background)].width # 0
          /\ bgs[Get(c.background)].height # 0
          /\ bgs[Get(c.background)].fps # 0
       THEN [ok |-> TRUE,
             size |-> <<bgs[Get(c.background)].width, bgs[Get(c.background)].height,
                        bgs[Get(c.background)].fps>>]
       ELSE [ok |-> FALSE, size |-> <<0, 0, 0>>]

\* Composition._getCanvasSize
_getCanvasSize(c) ==
  IF /\ IsSome(c.background)
     /\ bgs[Get(c.background)].width # 0
     /\ bgs[Get(c.background)].height # 0
     /\ bgs[Get(c.background)].fps # 0
  THEN [ok |-> TRUE,
        size |-> <<bgs[Get(c.background)].width, bgs[Get(c.background)].height,
                   bgs[Get(c.background)].fps>>]
  ELSE IF IsSome(c.canvasHint)
       THEN [ok |-> TRUE, size |-> Get(c.canvasHint)]
       ELSE [ok |-> FALSE, size |-> <<0, 0, 0>>]

\* Composition._getLongestForegroundDuration (loop over the first n layers)
RECURSIVE LongestUpTo(_, _)
LongestUpTo(ls, n) ==
  IF n = 0 THEN 0
  ELSE LET maxDuration == LongestUpTo(ls, n - 1)
           fgDuration == getDuration(fgs[ls[n].fg]._videoInfo)
       IN IF IsSome(fgDuration) /\ Get(fgDuration) # 0 /\ Get(fgDuration) > maxDuration
          THEN Get(fgDuration)
          ELSE maxDuration

_getLongestForegroundDuration(c) ==
  LET maxDuration == LongestUpTo(LayersOf(c), Len(c.layers))
  IN IF maxDuration > 0 THEN Some(maxDuration) ELSE None

\* A resolution that asks the video background before the explicit override
DurationBackgroundFirst(c) ==
  IF /\ IsSome(c.background)
     /\ controlsDuration(bgs[Get(c.background)])
     /\ IsSome(Background_getDuration(bgs[Get(c.background)]))
     /\ Get(Background_getDuration(bgs[Get(c.background)])) > 0
  THEN Background_getDuration(bgs[Get(c.background)])
  ELSE IF IsSome(c.explicitDuration) THEN c.explicitDuration
  ELSE _getLongestForegroundDuration(c)

\* Composition._getCompositionDuration
_getCompositionDuration(c) ==
  IF IsSome(c.explicitDuration) THEN c.explicitDuration
  ELSE IF /\ IsSome(c.background)
          /\ controlsDuration(bgs[Get(c.background)])
          /\ IsSome(Background_getDuration(bgs[Get(c.background)]))
          /\ Get(Background_getDuration(bgs[Get(c.background)])) # 0
          /\ Get(Background_getDuration(bgs[Get(c.background)])) > 0
       THEN Background_getDuration(bgs[Get(c.background)])
       ELSE _getLongestForegroundDuration(c)

\* ---------------------------------------------------- argv and graph terms
\* An argv token is a tuple whose first component names its kind:
\*   <<"s", text>>  <<"n", number>>  <<"path", locator>>  <<"gen", ...>>
\*   <<"fc", statements>>  <<"label", l>>  <<"stream", idx, "v"|"a", optional>>
\* A graph label is <<family, index, suffix>>; [n:v] is <<"in", n, "v">>.
\* A statement is [ins, f, p, outs]; the -filter_complex value is the
\* sequence of statements that the source joins with ';'.
S(text) == <<"s", text>>
N(number) == <<"n", number>>
InRef(n, kind) == <<"in", n, kind>>
LayerLabel(idx, suffix) == <<"layer", idx, suffix>>
Stmt(ins, f, p, outs) == [ins |-> ins, f |-> f, p |-> p, outs |-> outs]

\* inputMap[key]; a missing key reads as undefined, written -1
Lookup(inputMap, key) == IF key \in DOMAIN inputMap THEN inputMap[key] ELSE -1

\* Object.assign(inputMap, updates)
Assign(inputMap, updates) == updates @@ inputMap

\* Math.max(...Object.values(inputMap))
MaxValue(inputMap) ==
  CHOOSE m \in {inputMap[k] : k \in DOMAIN inputMap} :
    \A k \in DOMAIN inputMap : inputMap[k] <= m

\* Each background class's getFFmpegInputArgs
getFFmpegInputArgs(bg, canvasWidth, canvasHeight, canvasFps, webmSupport) ==
  CASE bg.kind = "color" ->
         << S("-f"), S("lavfi"), S("-i"),
            <<"gen", "color", bg.color, canvasWidth, canvasHeight, canvasFps>> >>
    [] bg.kind = "image" ->
         << S("-loop"), S("1"), S("-i"), <<"path", Get(bg.source)>> >>
    [] bg.kind = "video" ->
         LET decoderArgs == getDecoderArgs(bg.videoSource, webmSupport) IN
         IF IsSome(bg.sourceTrim)
         THEN LET start == Get(bg.sourceTrim)[1]
                  end == Get(bg.sourceTrim)[2]
              IN decoderArgs \o << S("-ss"), N(start) >>
                   \o (IF IsSome(end) THEN << S("-t"), N(Get(end) - start) >> ELSE <<>>)
                   \o << S("-i"), <<"path", Get(bg.source)>> >>
         ELSE decoderArgs \o << S("-i"), <<"path", Get(bg.source)>> >>
    [] OTHER ->
         << S("-f"), S("lavfi"), S("-i"),
            <<"gen", "color", Some("black@0.0"), canvasWidth, canvasHeight, canvasFps>> >>

\* getSourceTrimArgs closure of _buildFFmpegArgv
getSourceTrimArgs(fg) ==
  IF IsSome(fg.sourceTrim)
  THEN LET start == Get(fg.sourceTrim)[1]
           end == Get(fg.sourceTrim)[2]
       IN << S("-ss"), N(start) >>
            \o (IF IsSome(end) THEN << S("-t"), N(Get(end) - start) >> ELSE <<>>)
  ELSE <<>>

\* Foreground._getFileExtension on the asset names used here and on the
\* temp names the importer downloads to
_getFileExtension(path) ==
  CASE path \in {"fg.webm", "bg_silent.webm", "rgb.webm"}
         \cup {"/tmp/vbr_" \o ToString(n) \o ".webm" : n \in 1..MaxTemps} -> ".webm"
    [] path = "fg.mov" -> ".mov"
    [] path \in {"frames.zip"}
         \cup {"/tmp/vbr_" \o ToString(n) \o ".zip" : n \in 1..MaxTemps} -> ".zip"
    [] OTHER -> ".mp4"

\* Foreground._getWebmInputs
_getWebmInputs(fg, inputIdx, layerIdx, webmSupport, sourceTrimArgs) ==
  [args |-> (IF webmSupport THEN << S("-c:v"), S("libvpx-vp9") >> ELSE <<>>)
              \o sourceTrimArgs \o << S("-i"), <<"path", fg.primaryPath>> >>,
   inputMapUpdates |-> (<<"layer", layerIdx, "">> :> inputIdx),
   audioInputKey |-> Some(<<"layer", layerIdx, "">>)]

\* Foreground._getMovInputs
_getMovInputs(fg, inputIdx, layerIdx, sourceTrimArgs) ==
  [args |-> sourceTrimArgs \o << S("-i"), <<"path", fg.primaryPath>> >>,
   inputMapUpdates |-> (<<"layer", layerIdx, "">> :> inputIdx),
   audioInputKey |-> Some(<<"layer", layerIdx, "">>)]

\* A bundle whose separate audio file is registered at the mask's index
BundleInputsAudioAtMask(fg, inputIdx, layerIdx, webmSupport, sourceTrimArgs) ==
  LET args == (IF _getFileExtension(fg.primaryPath) = ".webm" /\ webmSupport
               THEN << S("-c:v"), S("libvpx-vp9") >> ELSE <<>>)
                \o sourceTrimArgs \o << S("-i"), <<"path", fg.primaryPath>> >>
                \o sourceTrimArgs \o << S("-i"), <<"path", Get(fg.maskPath)>> >>
      base == (<<"layer", layerIdx, "rgb">> :> inputIdx)
                @@ (<<"layer", layerIdx, "mask">> :> inputIdx + 1)
  IN IF IsSome(fg.audioPath)
     THEN [args |-> args \o sourceTrimArgs \o << S("-i"), <<"path", Get(fg.audioPath)>> >>,
           inputMapUpdates |-> base @@ (<<"layer", layerIdx, "audio">> :> inputIdx + 1),
           audioInputKey |-> Some(<<"layer", layerIdx, "audio">>)]
     ELSE [args |-> args,
           inputMapUpdates |-> base,
           audioInputKey |-> Some(<<"layer", layerIdx, "rgb">>)]

\* Foreground._getBundleInputs (maskPath is checked by the caller below)
_getBundleInputs(fg, inputIdx, layerIdx, webmSupport, sourceTrimArgs) ==
  LET rgbArgs ==
        (IF _getFileExtension(fg.primaryPath) = ".webm" /\ webmSupport
         THEN << S("-c:v"), S("libvpx-vp9") >> ELSE <<>>)
          \o sourceTrimArgs \o << S("-i"), <<"path", fg.primaryPath>> >>
      maskArgs == sourceTrimArgs \o << S("-i"), <<"path", Get(fg.maskPath)>> >>
      base == (<<"layer", layerIdx, "rgb">> :> inputIdx)
                @@ (<<"layer", layerIdx, "mask">> :> inputIdx + 1)
  IN IF IsSome(fg.audioPath)
     THEN [args |-> rgbArgs \o maskArgs
                      \o sourceTrimArgs \o << S("-i"), <<"path", Get(fg.audioPath)>> >>,
           inputMapUpdates |-> base @@ (<<"layer", layerIdx, "audio">> :> inputIdx + 2),
           audioInputKey |-> Some(<<"layer", layerIdx, "audio">>)]
     ELSE [args |-> rgbArgs \o maskArgs,
           inputMapUpdates |-> base,
           audioInputKey |-> Some(<<"layer", layerIdx, "rgb">>)]

\* Foreground._getStackedInputs
_getStackedInputs(fg, inputIdx, layerIdx, sourceTrimArgs) ==
  [args |-> sourceTrimArgs \o << S("-i"), <<"path", fg.primaryPath>> >>,
   inputMapUpdates |-> (<<"layer", layerIdx, "stacked">> :> inputIdx),
   audioInputKey |-> Some(<<"layer", layerIdx, "stacked">>)]

\* Foreground.getFFmpegInputs throws for an unknown format and for a bundle
\* without mask
InputsThrow(fg) ==
  \/ fg.format \notin {"webm_vp9", "mov_prores", "pro_bundle", "stacked_video"}
  \/ (fg.format = "pro_bundle" /\ ~IsSome(fg.maskPath))

\* Foreground.getFFmpegInputs
getFFmpegInputs(fg, inputIdx, layerIdx, webmSupport, sourceTrimArgs) ==
  CASE fg.format = "webm_vp9" ->
         _getWebmInputs(fg, inputIdx, layerIdx, webmSupport, sourceTrimArgs)
    [] fg.format = "mov_prores" ->
         _getMovInputs(fg, inputIdx, layerIdx, sourceTrimArgs)
    [] fg.format = "pro_bundle" ->
         _getBundleInputs(fg, inputIdx, layerIdx, webmSupport, sourceTrimArgs)
    [] OTHER ->
         _getStackedInputs(fg, inputIdx, layerIdx, sourceTrimArgs)

\* A loop that trims an input by the layer's own source_trim when it has one
RECURSIVE LayerInputsTrimByLayer(_, _, _, _)
LayerInputsTrimByLayer(ls, n, start, webmSupport) ==
  IF n = 0 THEN start
  ELSE LET acc == LayerInputsTrimByLayer(ls, n - 1, start, webmSupport)
           i == n - 1
           layer == ls[n]
           fg == fgs[layer.fg]
           trim == IF IsSome(layer.source_trim)
                   THEN getSourceTrimArgs([sourceTrim |-> layer.source_trim])
                   ELSE getSourceTrimArgs(fg)
           r == getFFmpegInputs(fg, acc.inputIdx, i, webmSupport, trim)
           inputMap == Assign(acc.inputMap, r.inputMapUpdates)
       IN [argv |-> acc.argv \o r.args,
           inputMap |-> inputMap,
           inputIdx |-> MaxValue(inputMap) + 1,
           audioInputs |->
             IF /\ layer.audio_enabled
                /\ IsSome(r.audioInputKey)
                /\ Get(r.audioInputKey) \in DOMAIN inputMap
             THEN Append(acc.audioInputs,
                         [input |-> <<inputMap[Get(r.audioInputKey)], "a">>,
                          volume |-> layer.audio_volume,
                          type |-> "foreground",
                          layerIndex |-> Some(i)])
             ELSE acc.audioInputs]

\* The layer-input loop of _buildFFmpegArgv over layers 0 .. n-1:
\* accumulates argv, inputMap, inputIdx and audioInputs.
RECURSIVE LayerInputs(_, _, _, _)
LayerInputs(ls, n, start, webmSupport) ==
  IF n = 0 THEN start
  ELSE LET acc == LayerInputs(ls, n - 1, start, webmSupport)
           i == n - 1
           layer == ls[n]
           fg == fgs[layer.fg]
           r == getFFmpegInputs(fg, acc.inputIdx, i, webmSupport, getSourceTrimArgs(fg))
           inputMap == Assign(acc.inputMap, r.inputMapUpdates)
       IN [argv |-> acc.argv \o r.args,
           inputMap |-> inputMap,
           inputIdx |-> MaxValue(inputMap) + 1,
           audioInputs |->
             IF /\ layer.audio_enabled
                /\ IsSome(r.audioInputKey)
                /\ Get(r.audioInputKey) \in DOMAIN inputMap
             THEN Append(acc.audioInputs,
                         [input |-> <<inputMap[Get(r.audioInputKey)], "a">>,
                          volume |-> layer.audio_volume,
                          type |-> "foreground",
                          layerIndex |-> Some(i)])
             ELSE acc.audioInputs]

\* ------------------------------------------------- format-specific filters
\* Foreground._getWebmFilters and _getMovFilters (identical bodies)
_getWebmFilters(idx, inputMap, alphaEnabled) ==
  IF ~alphaEnabled
  THEN << Stmt(<< InRef(Lookup(inputMap, <<"layer", idx, "">>), "v") >>,
               "format", <<"rgb24">>, << LayerLabel(idx, "merged") >>) >>
  ELSE <<>>

_getMovFilters(idx, inputMap, alphaEnabled) ==
  IF ~alphaEnabled
  THEN << Stmt(<< InRef(Lookup(inputMap, <<"layer", idx, "">>), "v") >>,
               "format", <<"rgb24">>, << LayerLabel(idx, "merged") >>) >>
  ELSE <<>>

\* Foreground._getBundleFilters
_getBundleFilters(idx, inputMap, alphaEnabled) ==
  LET rgbInput == InRef(Lookup(inputMap, <<"layer", idx, "rgb">>), "v")
      maskInput == InRef(Lookup(inputMap, <<"layer", idx, "mask">>), "v")
  IN IF alphaEnabled
     THEN << Stmt(<<rgbInput>>, "format", <<"rgba">>, << LayerLabel(idx, "rgba") >>),
             Stmt(<<maskInput>>, "format", <<"gray">>, << LayerLabel(idx, "mask_gray") >>),
             Stmt(<< LayerLabel(idx, "mask_gray") >>, "geq",
                  <<"if(gte(lum(X,Y),128),255,0)">>, << LayerLabel(idx, "binary_mask") >>),
             Stmt(<< LayerLabel(idx, "rgba"), LayerLabel(idx, "binary_mask") >>,
                  "alphamerge", <<>>, << LayerLabel(idx, "merged") >>) >>
     ELSE << Stmt(<<rgbInput>>, "format", <<"rgb24">>, << LayerLabel(idx, "merged") >>) >>

\* Foreground._getStackedFilters
_getStackedFilters(idx, inputMap, alphaEnabled) ==
  LET stackedInput == InRef(Lookup(inputMap, <<"layer", idx, "stacked">>), "v")
      top == Stmt(<<stackedInput>>, "crop", <<"iw", "ih/2", "0", "0">>,
                  << LayerLabel(idx, "top") >>)
  IN IF alphaEnabled
     THEN << top,
             Stmt(<< LayerLabel(idx, "top") >>, "format", <<"rgba">>,
                  << LayerLabel(idx, "top_rgba") >>),
             Stmt(<<stackedInput>>, "crop", <<"iw", "ih/2", "0", "ih/2">>,
                  << LayerLabel(idx, "bottom") >>),
             Stmt(<< LayerLabel(idx, "bottom") >>, "format", <<"gray">>,
                  << LayerLabel(idx, "mask_gray") >>),
             Stmt(<< LayerLabel(idx, "mask_gray") >>, "geq",
                  <<"if(gte(lum(X,Y),128),255,0)">>, << LayerLabel(idx, "binary_mask") >>),
             Stmt(<< LayerLabel(idx, "top_rgba"), LayerLabel(idx, "binary_mask") >>,
                  "alphamerge", <<>>, << LayerLabel(idx, "merged") >>) >>
     ELSE << top,
             Stmt(<< LayerLabel(idx, "top") >>, "format", <<"rgb24">>,
                  << LayerLabel(idx, "merged") >>) >>

\* Foreground.getFFmpegFilters
getFFmpegFilters(fg, idx, inputMap, alphaEnabled) ==
  CASE fg.format = "webm_vp9" -> _getWebmFilters(idx, inputMap, alphaEnabled)
    [] fg.format = "mov_prores" -> _getMovFilters(idx, inputMap, alphaEnabled)
    [] fg.format = "pro_bundle" -> _getBundleFilters(idx, inputMap, alphaEnabled)
    [] OTHER -> _getStackedFilters(idx, inputMap, alphaEnabled)

\* Foreground.getCurrentInputLabel
getCurrentInputLabel(fg, idx, alphaEnabled) ==
  IF fg.format \in {"webm_vp9", "mov_prores"} /\ alphaEnabled
  THEN <<"layer", idx, ":v">>
  ELSE LayerLabel(idx, "merged")

\* ------------------------------------------------ layer transformations
\* A constraint that leaves the two fit modes without a flag
AspectConstraintFitUnflagged(sizeMode) ==
  IF sizeMode \in {"canvas_percent", "px", "contain"}
  THEN Some("decrease")
  ELSE IF sizeMode = "cover" THEN Some("increase")
  ELSE None

\* Composition._getAspectRatioConstraint
_getAspectRatioConstraint(sizeMode) ==
  IF sizeMode \in {"canvas_percent", "px", "contain", "fit_width", "fit_height"}
  THEN Some("decrease")
  ELSE IF sizeMode = "cover" THEN Some("increase")
  ELSE None

\* percent || 100
OrHundred(percent) == IF IsSome(percent) /\ Get(percent) # 0 THEN Get(percent) ELSE 100

\* Composition._calculateTargetDimensions
_calculateTargetDimensions(size, canvasWidth, canvasHeight) ==
  LET sizeMode == size[1]
      width == size[2]
      height == size[3]
      percent == size[4]
  IN IF sizeMode # "canvas_percent" THEN <<canvasWidth, canvasHeight>>
     ELSE IF IsSome(width) /\ IsSome(height)
          THEN <<(canvasWidth * Get(width)) \div 100, (canvasHeight * Get(height)) \div 100>>
     ELSE IF IsSome(width)
          THEN <<(canvasWidth * Get(width)) \div 100,
                 (canvasHeight * OrHundred(percent)) \div 100>>
     ELSE IF IsSome(height)
          THEN <<(canvasWidth * OrHundred(percent)) \div 100,
                 (canvasHeight * Get(height)) \div 100>>
     ELSE IF IsSome(percent)
          THEN <<(canvasWidth * Get(percent)) \div 100, (canvasHeight * Get(percent)) \div 100>>
     ELSE <<canvasWidth, canvasHeight>>

\* The scale branch of _getLayerTransformationFilters: <<>> when no scale is
\* applied, else <<targetW, targetH>>
ScaleTarget(size, canvasWidth, canvasHeight) ==
  LET sizeMode == size[1]
      width == size[2]
      height == size[3]
      scale == size[5]
      truthy(o) == IsSome(o) /\ Get(o) # 0
  IN CASE sizeMode = "px" ->
            IF truthy(width) /\ truthy(height)
            THEN Some(<< <<"num", Get(width)>>, <<"num", Get(height)>> >>) ELSE None
       [] sizeMode = "canvas_percent" ->
            LET t == _calculateTargetDimensions(size, canvasWidth, canvasHeight)
            IN Some(<< <<"num", t[1]>>, <<"num", t[2]>> >>)
       [] sizeMode \in {"contain", "cover"} ->
            Some(<< <<"num", canvasWidth>>, <<"num", canvasHeight>> >>)
       [] sizeMode = "fit_width" -> Some(<< <<"num", canvasWidth>>, <<"num", -1>> >>)
       [] sizeMode = "fit_height" -> Some(<< <<"num", -1>>, <<"num", canvasHeight>> >>)
       [] sizeMode = "scale" ->
            IF IsSome(width) /\ IsSome(height)
            THEN Some(<< <<"iw*", Get(width)>>, <<"ih*", Get(height)>> >>)
            ELSE IF IsSome(scale)
            THEN Some(<< <<"iw*", Get(scale)>>, <<"ih*", Get(scale)>> >>)
            ELSE IF IsSome(width)
            THEN Some(<< <<"iw*", Get(width)>>, <<"ih*", Get(width)>> >>)
            ELSE IF IsSome(height)
            THEN Some(<< <<"iw*", Get(height)>>, <<"ih*", Get(height)>> >>)
            ELSE Some(<< <<"iw">>, <<"ih">> >>)
       [] OTHER -> None

\* A step that appends its statement but leaves currentOutput where it was
ChainStepStale(st, applies, f, p, nextLabel) ==
  IF applies
  THEN [filters |-> Append(st.filters, Stmt(<<st.cur>>, f, p, <<nextLabel>>)),
        cur |-> st.cur]
  ELSE st

\* One step of the chain: append the statement and move the current label
ChainStep(st, applies, f, p, nextLabel) ==
  IF applies
  THEN [filters |-> Append(st.filters, Stmt(<<st.cur>>, f, p, <<nextLabel>>)),
        cur |-> nextLabel]
  ELSE st

\* A chain that rotates before it scales
TransformationsRotateFirst(layer, layerIdx, currentInput, canvasWidth, canvasHeight) ==
  LET s0 == [filters |-> <<>>, cur |-> currentInput]
      compStart == layer.comp_start
      s1 == ChainStep(s0, IsSome(compStart) /\ Get(compStart) # 0 /\ Get(compStart) > 0,
                      "setpts", <<"PTS-STARTPTS", "PTS+", compStart>>,
                      LayerLabel(layerIdx, "timed"))
      s2 == ChainStep(s1, IsSome(layer.crop), "crop", <<layer.crop>>,
                      LayerLabel(layerIdx, "crop"))
      s3 == ChainStep(s2, layer.rotate # 0, "rotate", <<layer.rotate>>,
                      LayerLabel(layerIdx, "rotate"))
      target == ScaleTarget(layer.size, canvasWidth, canvasHeight)
      s4 == ChainStep(s3, IsSome(target), "scale",
                      <<target, _getAspectRatioConstraint(layer.size[1])>>,
                      LayerLabel(layerIdx, "scale"))
      s5 == ChainStep(s4, layer.opacity # 100, "colorchannelmixer", <<layer.opacity>>,
                      LayerLabel(layerIdx, "opacity"))
  IN IF Len(s5.filters) > 0 /\ s5.cur # LayerLabel(layerIdx, "final")
     THEN Append(s5.filters,
                 Stmt(<<s5.cur>>, "null", <<>>, << LayerLabel(layerIdx, "final") >>))
     ELSE s5.filters

\* Composition._getLayerTransformationFilters
_getLayerTransformationFilters(layer, layerIdx, currentInput, canvasWidth, canvasHeight) ==
  LET s0 == [filters |-> <<>>, cur |-> currentInput]
      compStart == layer.comp_start
      s1 == ChainStep(s0, IsSome(compStart) /\ Get(compStart) # 0 /\ Get(compStart) > 0,
                      "setpts", <<"PTS-STARTPTS", "PTS+", compStart>>,
                      LayerLabel(layerIdx, "timed"))
      s2 == ChainStep(s1, IsSome(layer.crop), "crop", <<layer.crop>>,
                      LayerLabel(layerIdx, "crop"))
      target == ScaleTarget(layer.size, canvasWidth, canvasHeight)
      s3 == ChainStep(s2, IsSome(target), "scale",
                      <<target, _getAspectRatioConstraint(layer.size[1])>>,
                      LayerLabel(layerIdx, "scale"))
      s4 == ChainStep(s3, layer.rotate # 0, "rotate", <<layer.rotate>>,
                      LayerLabel(layerIdx, "rotate"))
      s5 == ChainStep(s4, layer.opacity # 100, "colorchannelmixer", <<layer.opacity>>,
                      LayerLabel(layerIdx, "opacity"))
  IN IF Len(s5.filters) > 0 /\ s5.cur # LayerLabel(layerIdx, "final")
     THEN Append(s5.filters,
                 Stmt(<<s5.cur>>, "null", <<>>, << LayerLabel(layerIdx, "final") >>))
     ELSE s5.filters

\* --------------------------------------------------------- overlay position
\* Column and row of the nine anchors; any other value falls to the centre
AnchorCol(anchor) ==
  CASE anchor \in {"top-left", "center-left", "bottom-left"} -> "near"
    [] anchor \in {"top-right", "center-right", "bottom-right"} -> "far"
    [] OTHER -> "center"

AnchorRow(anchor) ==
  CASE anchor \in {"top-left", "top-center", "top-right"} -> "near"
    [] anchor \in {"bottom-left", "bottom-center", "bottom-right"} -> "far"
    [] OTHER -> "center"

\* One axis of the position: base is 0 (near), (C-b)/2 (center) or C-b (far),
\* where b is the overlay's own size (box = <<>>) or the target box; off is
\* appended when it is not 0; inner is the shift inside the target box.
AxisExprNoInnerShift(align, box, off) ==
  [base |-> align, box |-> box, off |-> off, offShown |-> off # 0,
   inner |-> "near"]

AxisExpr(align, box, off) ==
  [base |-> align, box |-> box, off |-> off, offShown |-> off # 0,
   inner |-> IF IsSome(box) THEN align ELSE "near"]

\* Composition._calculateOverlayPosition
_calculateOverlayPosition(layer, canvasWidth, canvasHeight) ==
  IF /\ IsSome(layer.x_expr) /\ Get(layer.x_expr) # ""
     /\ IsSome(layer.y_expr) /\ Get(layer.y_expr) # ""
  THEN [kind |-> "raw", x |-> layer.x_expr, y |-> layer.y_expr]
  ELSE IF layer.size[1] = "canvas_percent"
       THEN LET t == _calculateTargetDimensions(layer.size, canvasWidth, canvasHeight)
            IN [kind |-> "anchor",
                x |-> Some(AxisExpr(AnchorCol(layer.anchor), Some(t[1]), layer.dx)),
                y |-> Some(AxisExpr(AnchorRow(layer.anchor), Some(t[2]), layer.dy))]
       ELSE [kind |-> "anchor",
             x |-> Some(AxisExpr(AnchorCol(layer.anchor), None, layer.dx)),
             y |-> Some(AxisExpr(AnchorRow(layer.anchor), None, layer.dy))]

\* ------------------------------------------------------- compositing pass
\* A sort that is not stable: an element goes before the elements of equal z
InsertBeforeEqualZ(sorted, e) ==
  LET k == Cardinality({j \in 1..Len(sorted) : sorted[j].layer.z < e.layer.z})
  IN SubSeq(sorted, 1, k) \o <<e>> \o SubSeq(sorted, k + 1, Len(sorted))

\* this._layers.map(...).sort((a, b) => a.layer.z - b.layer.z): Array.sort is
\* stable, so an element is inserted after every element whose z is <= its own.
InsertByZ(sorted, e) ==
  LET k == Cardinality({j \in 1..Len(sorted) : sorted[j].layer.z <= e.layer.z})
  IN SubSeq(sorted, 1, k) \o <<e>> \o SubSeq(sorted, k + 1, Len(sorted))

RECURSIVE SortPrefix(_, _)
SortPrefix(ls, n) ==
  IF n = 0 THEN <<>>
  ELSE InsertByZ(SortPrefix(ls, n - 1), [layer |-> ls[n], originalIndex |-> n - 1])

sortedLayers(ls) == SortPrefix(ls, Len(ls))

\* The statements of one layer of the z-ordered loop, and the label of the
\* stream that its overlay consumes
LayerStatements(layer, originalIndex, inputMap, canvasWidth, canvasHeight) ==
  LET fg == fgs[layer.fg]
      formatFilters == getFFmpegFilters(fg, originalIndex, inputMap, layer.alpha_enabled)
      layerOutput ==
        IF Len(formatFilters) > 0
        THEN getCurrentInputLabel(fg, originalIndex, layer.alpha_enabled)
        ELSE InRef(Lookup(inputMap, <<"layer", originalIndex, "">>), "v")
      transformationFilters ==
        _getLayerTransformationFilters(layer, originalIndex, layerOutput,
                                       canvasWidth, canvasHeight)
  IN [filters |-> formatFilters \o transformationFilters,
      layerOutput |-> IF Len(transformationFilters) > 0
                      THEN LayerLabel(originalIndex, "final")
                      ELSE layerOutput]

\* The loop over sortedLayers[0 .. n-1]: accumulates filterParts and
\* currentOutput
RECURSIVE OverlayLoop(_, _, _, _, _)
OverlayLoop(sorted, n, inputMap, canvasWidth, canvasHeight) ==
  IF n = 0
  THEN [filterParts |-> <<>>, currentOutput |-> InRef(Lookup(inputMap, <<"background", 0, "">>), "v")]
  ELSE LET acc == OverlayLoop(sorted, n - 1, inputMap, canvasWidth, canvasHeight)
           layerIdx == n - 1
           layer == sorted[n].layer
           ls == LayerStatements(layer, sorted[n].originalIndex, inputMap,
                                 canvasWidth, canvasHeight)
           overlayParams == << _calculateOverlayPosition(layer, canvasWidth, canvasHeight),
                               "eof_action=pass" >>
       IN IF layerIdx = Len(sorted) - 1
          THEN [filterParts |->
                  acc.filterParts \o ls.filters
                    \o << Stmt(<<acc.currentOutput, ls.layerOutput>>, "overlay",
                               overlayParams, << <<"out", 0, "">> >>) >>,
                currentOutput |-> acc.currentOutput]
          ELSE [filterParts |->
                  acc.filterParts \o ls.filters
                    \o << Stmt(<<acc.currentOutput, ls.layerOutput>>, "overlay",
                               overlayParams, << <<"tmp", layerIdx, "">> >>) >>,
                currentOutput |-> <<"tmp", layerIdx, "">>]

\* ------------------------------------------------------------------ audio
\* compStart = layer.comp_start || 0 of the layer at layerIdx, 0 when the
\* index is past the layer list
CompStartAt(ls, layerIdx) ==
  IF layerIdx < Len(ls) /\ IsSome(ls[layerIdx + 1].comp_start)
  THEN Get(ls[layerIdx + 1].comp_start)
  ELSE 0

\* Math.floor(compStart * 1000)
DelayMs(compStart) == compStart \div TicksPerMs

AudioRef(audioInput) == InRef(audioInput.input[1], "a")

\* A single source that is always mapped directly
SingleAudioDirect(ls, audioInput) ==
  [parts |-> <<>>,
   map |-> << S("-map"), <<"stream", audioInput.input[1], "a", TRUE>> >>]

\* audioInputs.length === 1
SingleAudio(ls, audioInput) ==
  LET compStart == IF audioInput.type = "foreground" /\ IsSome(audioInput.layerIndex)
                   THEN CompStartAt(ls, Get(audioInput.layerIndex))
                   ELSE 0
      needsDelay == compStart > 0
      delayed == IF needsDelay
                 THEN << Stmt(<<AudioRef(audioInput)>>, "adelay", <<DelayMs(compStart)>>,
                              << <<"audio_delayed", -1, "">> >>) >>
                 ELSE <<>>
      currentLabel == IF needsDelay THEN <<"audio_delayed", -1, "">> ELSE AudioRef(audioInput)
  IN IF needsDelay \/ audioInput.volume # 100
     THEN [parts |->
             delayed \o
               (IF audioInput.volume # 100
                THEN << Stmt(<<currentLabel>>, "volume", <<audioInput.volume>>,
                             << <<"audio_out", 0, "">> >>) >>
                ELSE << Stmt(<<currentLabel>>, "anull", <<>>, << <<"audio_out", 0, "">> >>) >>),
           map |-> << S("-map"), <<"label", <<"audio_out", 0, "">>>> >>]
     ELSE [parts |-> <<>>,
           map |-> << S("-map"), <<"stream", audioInput.input[1], "a", TRUE>> >>]

\* const layerIdx = audioInput.layerIndex || i
LayerIdxOr(audioInput, i) ==
  IF IsSome(audioInput.layerIndex) /\ Get(audioInput.layerIndex) # 0
  THEN Get(audioInput.layerIndex)
  ELSE i

\* The loop of the multi-source branch over audioInputs[0 .. n-1]
RECURSIVE MixLoop(_, _, _)
MixLoop(ls, audioInputs, n) ==
  IF n = 0 THEN [parts |-> <<>>, processedAudio |-> <<>>]
  ELSE LET acc == MixLoop(ls, audioInputs, n - 1)
           i == n - 1
           audioInput == audioInputs[n]
           compStart == CompStartAt(ls, LayerIdxOr(audioInput, i))
           delayed == IF compStart > 0
                      THEN << Stmt(<<AudioRef(audioInput)>>, "adelay", <<DelayMs(compStart)>>,
                                   << <<"audio_delayed", i, "">> >>) >>
                      ELSE <<>>
           l1 == IF compStart > 0 THEN <<"audio_delayed", i, "">> ELSE AudioRef(audioInput)
           vol == IF audioInput.volume # 100
                  THEN << Stmt(<<l1>>, "volume", <<audioInput.volume>>,
                               << <<"audio_vol", i, "">> >>) >>
                  ELSE <<>>
           l2 == IF audioInput.volume # 100 THEN <<"audio_vol", i, "">> ELSE l1
       IN [parts |-> acc.parts \o delayed \o vol,
           processedAudio |-> Append(acc.processedAudio, l2)]

\* The audio section of _buildFFmpegArgv
AudioSection(ls, audioInputs) ==
  IF Len(audioInputs) = 0 THEN [parts |-> <<>>, map |-> << S("-an") >>]
  ELSE IF Len(audioInputs) = 1 THEN SingleAudio(ls, audioInputs[1])
  ELSE LET m == MixLoop(ls, audioInputs, Len(audioInputs))
       IN [parts |->
             Append(m.parts,
                    Stmt(m.processedAudio, "amix",
                         <<Len(m.processedAudio), "duration=longest">>,
                         << <<"audio_out", 0, "">> >>)),
           map |-> << S("-map"), <<"label", <<"audio_out", 0, "">>>> >>]

\* ---------------------------------------------------------------- encoder
\* EncoderProfile.h264() and EncoderProfile.args (the options the tests use)
h264 == [kind |-> "h264", crf |-> 18, preset |-> "medium"]
transparentWebm == [kind |-> "transparent_webm", crf |-> 28, preset |-> ""]

EncoderArgs(encoder, outPath) ==
  (CASE encoder.kind = "h264" ->
          << S("-c:v"), S("libx264"), S("-crf"), N(encoder.crf), S("-preset"),
             S(encoder.preset), S("-pix_fmt"), S("yuv420p") >>
     [] OTHER ->
          << S("-c:v"), S("libvpx-vp9"), S("-crf"), N(encoder.crf), S("-b:v"), S("0"),
             S("-pix_fmt"), S("yuva420p"), S("-auto-alt-ref"), S("0") >>)
    \o << <<"path", outPath>> >>

\* ------------------------------------------------------- _buildFFmpegArgv
\* First layer (from 0) whose getFFmpegInputs throws, or -1
FirstThrow(ls) ==
  IF \E i \in 1..Len(ls) : InputsThrow(fgs[ls[i].fg])
  THEN (CHOOSE i \in 1..Len(ls) :
          /\ InputsThrow(fgs[ls[i].fg])
          /\ \A j \in 1..(i - 1) : ~InputsThrow(fgs[ls[j].fg])) - 1
  ELSE -1

\* Composition._buildFFmpegArgv(outPath, encoder, false): [ok, error, argv].
\* webmSupport is what ctx.checkWebmSupport() answers during this build.
_buildFFmpegArgv(c, outPath, encoder, webmSupport) ==
  LET canvas == _getCanvasSize(c)
      ls == LayersOf(c)
  IN IF ~canvas.ok
     THEN [ok |-> FALSE, error |-> "Cannot determine canvas size", argv |-> <<>>]
     ELSE IF FirstThrow(ls) >= 0
     THEN [ok |-> FALSE,
           error |-> IF fgs[ls[FirstThrow(ls) + 1].fg].format = "pro_bundle"
                     THEN "maskPath is required for pro_bundle format"
                     ELSE "Unknown foreground format",
           argv |-> <<>>]
     ELSE
       LET canvasWidth == canvas.size[1]
           canvasHeight == canvas.size[2]
           canvasFps == canvas.size[3]
           bgArgs == IF IsSome(c.background)
                     THEN getFFmpegInputArgs(bgs[Get(c.background)], canvasWidth,
                                             canvasHeight, canvasFps, webmSupport)
                     ELSE << S("-f"), S("lavfi"), S("-i"),
                             <<"gen", "color", Some("black@0.0"), canvasWidth,
                               canvasHeight, canvasFps>> >>
           ins == LayerInputs(ls, Len(ls),
                              [argv |-> << S("ffmpeg"), S("-y") >> \o bgArgs,
                               inputMap |-> (<<"background", 0, "">> :> 0),
                               inputIdx |-> 1,
                               audioInputs |-> <<>>],
                              webmSupport)
           video == OverlayLoop(sortedLayers(ls), Len(ls), ins.inputMap,
                                canvasWidth, canvasHeight)
           videoMapArgs ==
             IF Len(video.filterParts) > 0
             THEN << S("-map"), <<"label", <<"out", 0, "">>>> >>
             ELSE << S("-map"), <<"stream", ins.inputMap[<<"background", 0, "">>], "v", FALSE>> >>
           audioInputs ==
             IF /\ IsSome(c.background)
                /\ bgs[Get(c.background)].audioEnabled
                /\ hasAudio(bgs[Get(c.background)])
             THEN Append(ins.audioInputs,
                         [input |-> <<ins.inputMap[<<"background", 0, "">>], "a">>,
                          volume |-> bgs[Get(c.background)].audioVolume,
                          type |-> "background",
                          layerIndex |-> None])
             ELSE ins.audioInputs
           audio == AudioSection(ls, audioInputs)
           allFilterParts == video.filterParts \o audio.parts
           compDuration == _getCompositionDuration(c)
           encoderArgs == EncoderArgs(encoder, outPath)
       IN [ok |-> TRUE, error |-> "",
           argv |->
             ins.argv
               \o (IF Len(allFilterParts) > 0
                   THEN << S("-filter_complex"), <<"fc", allFilterParts>> >> ELSE <<>>)
               \o videoMapArgs
               \o audio.map
               \o (IF IsSome(compDuration) /\ Get(compDuration) # 0
                   THEN << S("-t"), N(Get(compDuration)) >> ELSE <<>>)
               \o SubSeq(encoderArgs, 1, Len(encoderArgs) - 1)
               \o << encoderArgs[Len(encoderArgs)] >>]

\* ------------------------------------------------------------ input values
Anchors ==
  {"center", "top-left", "top-center", "top-right", "center-left", "center-right",
   "bottom-left", "bottom-center", "bottom-right"}
Offsets == {0, -10, 25}
RawExprs == {<<"W/4", "H-h-8">>}
SizeArgs ==
  {<<"cover", None, None, None, None>>,
   <<"px", None, None, None, None>>,
   <<"px", Some(640), Some(360), None, None>>,
   <<"canvas_percent", None, None, Some(50), None>>,
   <<"canvas_percent", Some(33), None, None, None>>,
   <<"fit_width", None, None, None, None>>,
   <<"fit_height", None, None, None, None>>,
   <<"scale", None, None, None, Some(2)>>}
Alphas == {-50, 0, 50, 100, 150}
Degrees == {0, 90, -45}
Crops == {<<0, 0, 100, 100>>}
Starts == {0, 1, Sec(5)}
Ends == {Sec(4)}
Durations == {Sec(3)}
Trims == {<<Sec(1), Some(Sec(10))>>, <<Sec(2), Some(Sec(5))>>, <<Sec(1), None>>}
Volumes == {-50, 50, 100, 150}
AudioArgs == BOOLEAN \X Volumes
ZValues == {-1, 1, 2}
Names == {<<"main">>}
CanvasArgs == {<<1280, 720, 24>>}
ExplicitDurations == {0, Sec(7)}
ExitCodes == {0, 1}
Chunks == {"Unknown encoder", "Conversion failed!"}
\* <<videoPath, maskPath, audioPath, matte>>: the soft matte pair is passed
\* with matte = true, the binary mask pair with matte = false
BundleArgs ==
  {<<"matte/video_preprocessed.mp4", "matte/video_matte.mp4", None, TRUE>>,
   <<"rgb.mp4", "mask.mp4", None, FALSE>>}

\* ------------------------------------------------------------------- Init
\* The media objects the factories build from the assets on disk
BgAssets ==
  << ColorBackground("#FF0000", 1920, 1080, 30, FALSE, 100),
     ImageBackground("bg.png", 1280, 720, 30, FALSE, 100),
     fromVideo("bg.mp4", 1920, 1080, 25),
     fromVideo("bg_silent.webm", 640, 480, 30),
     EmptyBackground(1920, 1080, 30, FALSE, 100),
     ColorBackground("#00FF00", 0, 1080, 30, FALSE, 100) >>

FgAssets ==
  << fromWebmVp9("fg.webm"),
     fromMovProres("fg.mov"),
     fromVideoAndMask("rgb.mp4", "mask.mp4", None),
     fromVideoAndMask("rgb.webm", "mask.webm", Some("audio.m4a")),
     fromStackedVideo("stacked.mp4"),
     fromPngSequence("frames.zip") >>

\* The media-tool process of the last toFile call and the promise that call
\* returned: emitted is what the tool has written to its error stream, stderr
\* the text _run has collected from it, exit the code it closed with, events
\* what _run and its handlers have done so far, in the order of the statements:
\* "processing" and "completed" for the onProgress calls, "spawn" for the
\* spawn call, "resolve" and "reject" for the calls of the promise's functions
NewProc(state, onProgress, verbose, promise) ==
  [state |-> state, onProgress |-> onProgress, verbose |-> verbose, promise |-> promise,
   emitted |-> <<>>, stderr |-> <<>>, exit |-> None, spawnError |-> FALSE,
   events |-> <<>>]

Idle == NewProc("idle", FALSE, FALSE, <<"none">>)

\* ----------------------------------------------------- the API client
\* client.ts:38-52: the states of a job; 'completed' and 'failed' end it
JobStates == {"created", "uploaded", "processing", "completed", "failed"}

\* A JobStatus as far as wait and the importer read it
JobStatus(status, message, processed_video_url) ==
  [status |-> status, message |-> message, processed_video_url |-> processed_video_url]

\* An error as far as a caller can tell it apart: its class, its message and
\* the job id a ProcessingError carries
ErrorOf(name, message, jobId) == [name |-> name, message |-> message, jobId |-> jobId]

\* What the response interceptor throws for a request that failed: without
\* a response (code None) a network error, else by HTTP status
handleApiError(code, message) ==
  IF ~IsSome(code) THEN ErrorOf("ApiError", <<"Network error: ", message>>, None)
  ELSE IF Get(code) = 401 THEN ErrorOf("ApiError", <<"Invalid API key">>, None)
  ELSE IF Get(code) = 402 THEN ErrorOf("InsufficientCreditsError", <<message>>, None)
  ELSE IF Get(code) = 404 THEN ErrorOf("JobNotFoundError", <<"Job not found: ", message>>, None)
  ELSE IF Get(code) = 500 THEN ErrorOf("ProcessingError", <<message>>, None)
  ELSE ErrorOf("ApiError", <<message>>, None)

\* The answers to a status request: a job on its way, done with or without
\* a result URL, failed with or without a message
Responses ==
  {JobStatus("uploaded", None, None), JobStatus("processing", None, None),
   JobStatus("completed", None, Some("https://example.com/result.webm")),
   JobStatus("completed", None, Some("https://example.com/bundle.zip?sig=abc")),
   JobStatus("completed", None, None),
   JobStatus("failed", Some("Processing failed"), None), JobStatus("failed", None, None)}
Pending == {r \in Responses : r.status \notin {"completed", "failed"}}
\* Requests that fail: no response, job unknown, server error
HttpFailures == {None, Some(404), Some(500)}
JobIds == {"job_123"}
\* pollSeconds: the default or 1 s; timeout: none, 0, 1 s or 2 s
PollIntervals == {None, Some(Sec(1))}
Timeouts == {None, Some(0), Some(Sec(1)), Some(Sec(2))}
\* how long a status request takes, and how late a timer fires
Latencies == {0, Sec(1)}
Lates == {0, TicksPerMs}

\* JavaScript's truthiness of an optional number: undefined and 0 are falsy
TruthyNumber(n) == IsSome(n) /\ Get(n) # 0

\* One call of client.wait: its arguments, the time it started, the last
\* state reported to onStatus, and how it ended. polled lists the status
\* requests answered so far with the time each answer arrived, notified the
\* calls made to onStatus
NewWait(state, jobId, pollSeconds, timeout, onStatus, startTime) ==
  [state |-> state, jobId |-> jobId, pollSeconds |-> pollSeconds, timeout |-> timeout,
   onStatus |-> onStatus, startTime |-> startTime, lastStatus |-> None,
   polled |-> <<>>, notified |-> <<>>, result |-> None, error |-> None]

NoWait == NewWait("idle", "", 0, None, FALSE, 0)

\* ------------------------------------------- MediaContext and the importer
\* A temp name: the temp root, the prefix, a stamp that differs from call to
\* call (Date.now() and Math.random()), the suffix
TempName(prefix, n, suffix) == "/tmp/" \o prefix \o ToString(n) \o suffix

\* Importer._getFileExtensionFromUrl on the result URLs used here: a known
\* extension of the URL's path, else .mp4
_getFileExtensionFromUrl(url) ==
  CASE url = "https://example.com/result.webm" -> ".webm"
    [] url = "https://example.com/bundle.zip?sig=abc" -> ".zip"
    [] OTHER -> ".mp4"

\* The sources handed to the factories
VideoSources == {"bg.mp4", "fg.webm", "https://example.com/clip.mp4"}
ImageSources == {"bg.png", "https://example.com/bg.jpg", "https://example.com/image"}

\* The videos handed to the importer: a local file and a public URL
Videos == {[kind |-> "file", src |-> "input.mov"],
           [kind |-> "url", src |-> "https://example.com/input.mp4"]}
\* What a pro-bundle archive may hold
Archives == {{"color.mp4", "alpha.mp4", "audio.m4a"}, {"color.mp4", "alpha.mp4"}, {"color.mp4"}}

\* One call of Importer.removeBackground: the operation it awaits (pc), the
\* operations begun so far in order (trace), the job, the path the result is
\* downloaded to, the Foreground it resolved with or the error it rejected
\* with, and the number of Foregrounds that existed when it was called
NewImport(pc, video, waitPollSeconds, onStatus, trace, n, fgsBefore) ==
  [pc |-> pc, video |-> video, waitPollSeconds |-> waitPollSeconds, onStatus |-> onStatus,
   trace |-> trace, publicUrlOk |-> None, jobId |-> "", localPath |-> "",
   value |-> None, error |-> None,
   n |-> n, fgsBefore |-> fgsBefore]

NoImport == NewImport("idle", [kind |-> "file", src |-> ""], 0, FALSE, <<>>, 0, 0)

\* The importer goes on to await op
Begin(i, op) == [i EXCEPT !.pc = op, !.trace = Append(@, op)]
\* removeBackground rejects with error
Reject(i, error) == [i EXCEPT !.pc = "rejected", !.error = Some(error)]

Init ==
  /\ bgs = BgAssets
  /\ fgs = FgAssets
  /\ layers = <<>>
  /\ comps = <<>>
  /\ handles = <<>>
  /\ ret = [op |-> "init", recv |-> <<>>, val |-> <<>>]
  /\ calls = 0
  /\ runs = 0
  /\ spawned = 0
  /\ progress = <<>>
  /\ proc = Idle
  /\ now = 0
  /\ waits = 0
  /\ wt = NoWait
  /\ imp = NoImport
  /\ disk = {}
  /\ tempFiles = {}
  /\ temps = 0

\* ------------------------------------------------- media object operations
\* bg.audio(enabled, volume): a new Background instance
BackgroundAudio(b, enabled, volume) ==
  /\ Len(bgs) < MaxBgs
  /\ bgs' = Append(bgs, Background_audio(bgs[b], enabled, volume))
  /\ ret' = [op |-> "Background.audio", recv |-> <<b>>, val |-> <<Len(bgs) + 1>>,
             args |-> <<enabled, volume>>]
  /\ UNCHANGED <<fgs, layers, comps, handles, calls, runs, spawned, progress, proc, apiVars>>

\* videoBg.subclip(start, end): a new VideoBackground instance
BackgroundSubclip(b, start, end) ==
  /\ Len(bgs) < MaxBgs
  /\ bgs[b].kind = "video"
  /\ bgs' = Append(bgs, VideoBackground_subclip(bgs[b], start, end))
  /\ ret' = [op |-> "Background.subclip", recv |-> <<b>>, val |-> <<Len(bgs) + 1>>,
             args |-> <<start, end>>]
  /\ UNCHANGED <<fgs, layers, comps, handles, calls, runs, spawned, progress, proc, apiVars>>

\* Foreground.fromVideoAndMask(videoPath, maskPath, audioPath, ctx, matte): the
\* factory declares four parameters, so a fifth argument is not read
Foreground_fromVideoAndMask(videoPath, maskPath, audioPath, matte) ==
  /\ Len(fgs) < MaxFgs
  /\ fgs' = Append(fgs, fromVideoAndMask(videoPath, maskPath, audioPath))
  /\ ret' = [op |-> "fromVideoAndMask", recv |-> <<>>, val |-> <<Len(fgs) + 1>>,
             args |-> <<videoPath, maskPath, audioPath, matte>>]
  /\ UNCHANGED <<bgs, layers, comps, handles, calls, runs, spawned, progress, proc, apiVars>>

\* fg.subclip(start, end): a new Foreground instance
ForegroundSubclip(f, start, end) ==
  /\ Len(fgs) < MaxFgs
  /\ fgs' = Append(fgs, Foreground_subclip(fgs[f], start, end))
  /\ ret' = [op |-> "Foreground.subclip", recv |-> <<f>>, val |-> <<Len(fgs) + 1>>,
             args |-> <<start, end>>]
  /\ UNCHANGED <<bgs, layers, comps, handles, calls, runs, spawned, progress, proc, apiVars>>

\* ------------------------------------------------- Composition operations
\* new Composition(background): the one composition the caller starts from
NewComposition(background) ==
  /\ comps = <<>>
  /\ comps' = << NewCompositionRec(background) >>
  /\ ret' = [op |-> "new Composition", recv |-> <<>>, val |-> <<1>>]
  /\ UNCHANGED <<bgs, fgs, layers, handles, calls, runs, spawned, progress, proc, apiVars>>

\* A background() that copies the receiver's state, as setCanvas does
BackgroundKeepsState(c, bg) ==
  /\ Len(comps) < MaxComps
  /\ comps' = Append(comps, [comps[c] EXCEPT !.background = Some(bg)])
  /\ ret' = [op |-> "background", recv |-> <<c>>, val |-> <<Len(comps) + 1>>, args |-> <<bg>>]
  /\ UNCHANGED <<bgs, fgs, layers, handles, calls, runs, spawned, progress, proc, apiVars>>

\* comp.background(bg): new Composition(bg, this.ctx)
Composition_background(c, bg) ==
  /\ Len(comps) < MaxComps
  /\ comps' = Append(comps, NewCompositionRec(Some(bg)))
  /\ ret' = [op |-> "background", recv |-> <<c>>, val |-> <<Len(comps) + 1>>, args |-> <<bg>>]
  /\ UNCHANGED <<bgs, fgs, layers, handles, calls, runs, spawned, progress, proc, apiVars>>

\* A setCanvas that builds the copy without the receiver's explicit duration
SetCanvasDropsDuration(c, width, height, fps) ==
  /\ Len(comps) < MaxComps
  /\ comps' = Append(comps, [background |-> comps[c].background,
                             layers |-> comps[c].layers,
                             canvasHint |-> Some(<<width, height, fps>>),
                             explicitDuration |-> None])
  /\ ret' = [op |-> "setCanvas", recv |-> <<c>>, val |-> <<Len(comps) + 1>>]
  /\ UNCHANGED <<bgs, fgs, layers, handles, calls, runs, spawned, progress, proc, apiVars>>

\* comp.setCanvas(width, height, fps)
Composition_setCanvas(c, width, height, fps) ==
  /\ Len(comps) < MaxComps
  /\ comps' = Append(comps, [background |-> comps[c].background,
                             layers |-> comps[c].layers,
                             canvasHint |-> Some(<<width, height, fps>>),
                             explicitDuration |-> comps[c].explicitDuration])
  /\ ret' = [op |-> "setCanvas", recv |-> <<c>>, val |-> <<Len(comps) + 1>>]
  /\ UNCHANGED <<bgs, fgs, layers, handles, calls, runs, spawned, progress, proc, apiVars>>

\* comp.setDuration(seconds)
Composition_setDuration(c, seconds) ==
  /\ Len(comps) < MaxComps
  /\ comps' = Append(comps, [background |-> comps[c].background,
                             layers |-> comps[c].layers,
                             canvasHint |-> comps[c].canvasHint,
                             explicitDuration |-> Some(seconds)])
  /\ ret' = [op |-> "setDuration", recv |-> <<c>>, val |-> <<Len(comps) + 1>>]
  /\ UNCHANGED <<bgs, fgs, layers, handles, calls, runs, spawned, progress, proc, apiVars>>

\* comp.add(fg, name): pushes the LayerDict and returns a new LayerHandle
Composition_add(c, f, name) ==
  /\ calls < MaxCalls
  /\ Len(layers) < MaxLayers
  /\ calls' = calls + 1
  /\ layers' = Append(layers, NewLayer(f, name, Len(comps[c].layers)))
  /\ comps' = [comps EXCEPT ![c].layers = Append(@, Len(layers) + 1)]
  /\ handles' = Append(handles, <<c, Len(comps[c].layers)>>)
  /\ ret' = [op |-> "add", recv |-> <<c>>, val |-> <<Len(handles) + 1>>]
  /\ UNCHANGED <<bgs, fgs, runs, spawned, progress, proc, apiVars>>

\* ------------------------------------------------- LayerHandle operations
\* this.comp._layers[this.idx] of handle h, as a layer id
LayerIdOf(h) == comps[handles[h][1]].layers[handles[h][2] + 1]
LayerOf(h) == layers[LayerIdOf(h)]

\* A handle method that writes the most recently added layer, whatever the handle
HandleCallLastLayer(h, op, newLayer) ==
  /\ calls < MaxCalls
  /\ calls' = calls + 1
  /\ layers' = [layers EXCEPT ![Len(layers)] = newLayer]
  /\ ret' = [op |-> op, recv |-> <<h>>, val |-> <<h>>]
  /\ UNCHANGED <<bgs, fgs, comps, handles, runs, spawned, progress, proc, apiVars>>

\* The shared shape of every handle method: write the layer, return this
HandleCall(h, op, newLayer) ==
  /\ calls < MaxCalls
  /\ calls' = calls + 1
  /\ layers' = [layers EXCEPT ![LayerIdOf(h)] = newLayer]
  /\ ret' = [op |-> op, recv |-> <<h>>, val |-> <<h>>]
  /\ UNCHANGED <<bgs, fgs, comps, handles, runs, spawned, progress, proc, apiVars>>

LayerHandle_at(h, anchor, dx, dy) ==
  HandleCall(h, "at", [LayerOf(h) EXCEPT !.anchor = anchor, !.dx = dx, !.dy = dy])

LayerHandle_xy(h, xExpr, yExpr) ==
  HandleCall(h, "xy", [LayerOf(h) EXCEPT !.x_expr = Some(xExpr), !.y_expr = Some(yExpr)])

LayerHandle_size(h, size) ==
  HandleCall(h, "size", [LayerOf(h) EXCEPT !.size = size])

LayerHandle_opacity(h, alpha) ==
  HandleCall(h, "opacity", [LayerOf(h) EXCEPT !.opacity = Clamp01(alpha)])

LayerHandle_rotate(h, degrees) ==
  HandleCall(h, "rotate", [LayerOf(h) EXCEPT !.rotate = degrees])

LayerHandle_crop(h, crop) ==
  HandleCall(h, "crop", [LayerOf(h) EXCEPT !.crop = Some(crop)])

LayerHandle_start(h, seconds) ==
  HandleCall(h, "start", [LayerOf(h) EXCEPT !.comp_start = Some(seconds)])

LayerHandle_end(h, seconds) ==
  HandleCall(h, "end", [LayerOf(h) EXCEPT !.comp_end = Some(seconds)])

LayerHandle_duration(h, seconds) ==
  HandleCall(h, "duration", [LayerOf(h) EXCEPT !.comp_duration = Some(seconds)])

LayerHandle_subclip(h, start, end) ==
  HandleCall(h, "subclip", [LayerOf(h) EXCEPT !.source_trim = Some(<<start, end>>)])

LayerHandle_audio(h, enabled, volume) ==
  HandleCall(h, "audio", [LayerOf(h) EXCEPT !.audio_enabled = enabled,
                                            !.audio_volume = Clamp01(volume)])

LayerHandle_z(h, index) ==
  HandleCall(h, "z", [LayerOf(h) EXCEPT !.z = index])

LayerHandle_alpha(h, enabled) ==
  HandleCall(h, "alpha", [LayerOf(h) EXCEPT !.alpha_enabled = enabled])

\* ------------------------------------------------------------------ export
\* How often one _buildFFmpegArgv of c calls ctx.checkWebmSupport(), which
\* runs `ffmpeg -codecs | grep libvpx-vp9` with execSync: once for a probed
\* vp9 video background, once per webm_vp9 layer, once per pro_bundle layer
\* whose primary path ends in .webm; none after a throw.
checkWebmSupportCalls(c) ==
  LET ls == LayersOf(c)
      built == IF FirstThrow(ls) >= 0 THEN FirstThrow(ls) ELSE Len(ls)
      asks(fg) == \/ fg.format = "webm_vp9"
                  \/ /\ fg.format = "pro_bundle"
                     /\ _getFileExtension(fg.primaryPath) = ".webm"
      bgAsks == /\ IsSome(c.background)
                /\ bgs[Get(c.background)].kind = "video"
                /\ IsSome(bgs[Get(c.background)].videoSource)
                /\ Get(bgs[Get(c.background)].videoSource).codec_name = "vp9"
  IN IF ~_getCanvasSize(c).ok THEN 0
     ELSE (IF bgAsks THEN 1 ELSE 0)
            + Cardinality({i \in 1..built : asks(fgs[ls[i].fg])})

\* A dryRun that goes on to run what it compiled, as toFile does
DryRunRunsTheTool(c, webmSupport) ==
  /\ ret' = [op |-> "dryRun", recv |-> <<c>>,
             val |-> << _buildFFmpegArgv(comps[c], "OUT.mp4", h264, webmSupport) >>,
             queries |-> checkWebmSupportCalls(comps[c])]
  /\ spawned' = spawned + 1
  /\ UNCHANGED <<bgs, fgs, layers, comps, handles, calls, runs, progress, proc, apiVars>>

\* comp.dryRun(): the argv that would be joined with ' ', or the thrown error;
\* queries is the number of codec-listing processes the build has run
Composition_dryRun(c, webmSupport) ==
  /\ ret' = [op |-> "dryRun", recv |-> <<c>>,
             val |-> << _buildFFmpegArgv(comps[c], "OUT.mp4", h264, webmSupport) >>,
             queries |-> checkWebmSupportCalls(comps[c])]
  /\ UNCHANGED <<bgs, fgs, layers, comps, handles, calls, runs, spawned, progress, proc, apiVars>>

\* A _run that spawns the tool and only then reports 'processing'
RunSpawnsFirst(r, onProgress, verbose) ==
  IF ~r.ok
  THEN /\ proc' = NewProc("idle", onProgress, verbose, <<"rejected", r.error>>)
       /\ spawned' = 0
       /\ progress' = <<>>
  ELSE /\ progress' = IF onProgress THEN <<"processing">> ELSE <<>>
       /\ spawned' = 1
       /\ proc' = [NewProc("running", onProgress, verbose, <<"pending">>)
                     EXCEPT !.events = <<"spawn">>
                                         \o (IF onProgress THEN <<"processing">> ELSE <<>>)]

\* How toFile goes on from the result r of _buildFFmpegArgv: a throw rejects
\* the promise of the async function before _run is reached; otherwise _run
\* reports 'processing' and spawns the media tool.  spawned and progress
\* record what this call has spawned and passed to its onProgress.
RunBuilt(r, onProgress, verbose) ==
  IF ~r.ok
  THEN /\ proc' = NewProc("idle", onProgress, verbose, <<"rejected", r.error>>)
       /\ spawned' = 0
       /\ progress' = <<>>
  ELSE /\ progress' = IF onProgress THEN <<"processing">> ELSE <<>>
       /\ spawned' = 1
       /\ proc' = [NewProc("running", onProgress, verbose, <<"pending">>)
                     EXCEPT !.events = (IF onProgress THEN <<"processing">> ELSE <<>>)
                                         \o <<"spawn">>]

\* comp.toFile(outPath, encoder, onProgress, verbose) up to the spawn
Composition_toFile(c, encoder, onProgress, verbose, webmSupport) ==
  /\ runs < MaxRuns
  /\ proc.state \in {"idle", "closed"}
  /\ runs' = runs + 1
  /\ ret' = [op |-> "toFile", recv |-> <<c>>, val |-> <<"promise">>]
  /\ RunBuilt(_buildFFmpegArgv(comps[c], "out.mp4", encoder, webmSupport), onProgress, verbose)
  /\ UNCHANGED <<bgs, fgs, layers, comps, handles, calls, apiVars>>

\* A promise settles once: later resolve / reject calls are ignored
Settle(promise, outcome) == IF promise = <<"pending">> THEN outcome ELSE promise

\* The tool writes data to its error stream.  In quiet mode the stream is a
\* pipe and the 'data' handler appends to stderr; in verbose mode stdio is
\* 'inherit', the text goes to the caller's terminal and no handler is set.
ProcessStderr(data) ==
  /\ proc.state = "running"
  /\ Len(proc.emitted) < MaxChunks
  /\ proc' = [proc EXCEPT !.emitted = Append(@, data),
                          !.stderr = IF proc.verbose THEN @ ELSE Append(@, data)]
  /\ ret' = [op |-> "stderr", recv |-> <<>>, val |-> <<data>>]
  /\ UNCHANGED <<bgs, fgs, layers, comps, handles, calls, runs, spawned, progress, apiVars>>

\* A close handler that resolves whatever the exit code is
CloseIgnoresCode(code) ==
  /\ proc.state \in {"running", "errored"}
  /\ proc.state = "errored" => code # 0
  /\ progress' = IF proc.onProgress THEN Append(progress, "completed") ELSE progress
  /\ proc' = [proc EXCEPT !.state = "closed", !.exit = Some(code),
                          !.promise = Settle(@, <<"resolved", "">>),
                          !.events = @ \o (IF proc.onProgress THEN <<"completed">> ELSE <<>>)
                                       \o <<"resolve">>]
  /\ ret' = [op |-> "close", recv |-> <<>>, val |-> <<code>>]
  /\ UNCHANGED <<bgs, fgs, layers, comps, handles, calls, runs, spawned, apiVars>>

\* process.on('close', code)
ProcessClose(code) ==
  /\ proc.state \in {"running", "errored"}
  /\ proc.state = "errored" => code # 0
  /\ IF code = 0
     THEN /\ progress' = IF proc.onProgress THEN Append(progress, "completed") ELSE progress
          /\ proc' = [proc EXCEPT !.state = "closed", !.exit = Some(code),
                                  !.promise = Settle(@, <<"resolved", "">>),
                                  !.events = @ \o (IF proc.onProgress THEN <<"completed">>
                                                                       ELSE <<>>)
                                               \o <<"resolve">>]
     ELSE /\ progress' = progress
          /\ proc' = [proc EXCEPT !.state = "closed", !.exit = Some(code),
                                  !.promise = Settle(@, <<"rejected", "FFmpeg failed with code",
                                                          code, proc.stderr>>),
                                  !.events = Append(@, "reject")]
  /\ ret' = [op |-> "close", recv |-> <<>>, val |-> <<code>>]
  /\ UNCHANGED <<bgs, fgs, layers, comps, handles, calls, runs, spawned, apiVars>>

\* process.on('error', error): the tool could not be started
ProcessError ==
  /\ proc.state = "running"
  /\ proc' = [proc EXCEPT !.state = "errored", !.spawnError = TRUE,
                          !.promise = Settle(@, <<"rejected", "FFmpeg execution failed">>),
                          !.events = Append(@, "reject")]
  /\ ret' = [op |-> "error", recv |-> <<>>, val |-> <<>>]
  /\ UNCHANGED <<bgs, fgs, layers, comps, handles, calls, runs, spawned, progress, apiVars>>

\* ------------------------------------------------------- next-state relation
\* The caller's steps, each over the objects and the argument values it may use
\* client.wait(jobId, {pollSeconds, timeout, onStatus}): notes the time and
\* sends the first status request. pollSeconds defaults to 2 seconds
VideoBGRemoverClient_wait(jobId, pollSeconds, timeout, onStatus) ==
  /\ wt.state \in {"idle", "returned", "rejected"}
  /\ waits < MaxWaits
  /\ waits' = waits + 1
  /\ wt' = NewWait("polling", jobId, IF IsSome(pollSeconds) THEN Get(pollSeconds) ELSE Sec(2),
                   timeout, onStatus, now)
  /\ UNCHANGED <<mediaVars, now, imp, fileVars>>

\* (StatusResolves without the branch for a failed job)
StatusResolvesFailedIsPending(status, latency) ==
  /\ wt.state = "polling"
  /\ now' = now + latency
  /\ LET polled == Append(wt.polled, [status |-> status.status, message |-> status.message,
                                       at |-> now'])
     IN IF status.status = "completed"
        THEN wt' = [wt EXCEPT !.state = "returned", !.polled = polled, !.result = Some(status)]
        ELSE wt' = [wt EXCEPT !.state = "sleeping", !.polled = polled]
  /\ UNCHANGED <<mediaVars, waits, imp, fileVars>>

\* (StatusResolves with the timeout reached at t, not only passed)
StatusResolvesTimeoutAtT(status, latency) ==
  /\ wt.state = "polling"
  /\ now' = now + latency
  /\ LET polled == Append(wt.polled, [status |-> status.status, message |-> status.message,
                                       at |-> now'])
     IN IF status.status = "completed"
        THEN wt' = [wt EXCEPT !.state = "returned", !.polled = polled, !.result = Some(status)]
        ELSE IF TruthyNumber(wt.timeout) /\ now' - wt.startTime >= Get(wt.timeout)
        THEN wt' = [wt EXCEPT !.state = "rejected", !.polled = polled,
                      !.error = Some(ErrorOf("Error",
                                  <<"Job ", wt.jobId, " did not complete within ",
                                    Get(wt.timeout), " seconds">>, None))]
        ELSE wt' = [wt EXCEPT !.state = "sleeping", !.polled = polled]
  /\ UNCHANGED <<mediaVars, waits, imp, fileVars>>

\* The loop body of wait after 'await this.status(jobId)' resolved with
\* status, latency after the request was sent: return it when completed,
\* throw ProcessingError when failed, throw when the timeout has passed,
\* else report a changed state to onStatus and start the sleep
StatusResolves(status, latency) ==
  /\ wt.state = "polling"
  /\ now' = now + latency
  /\ LET polled == Append(wt.polled, [status |-> status.status, message |-> status.message,
                                       at |-> now'])
     IN IF status.status = "completed"
        THEN wt' = [wt EXCEPT !.state = "returned", !.polled = polled, !.result = Some(status)]
        ELSE IF status.status = "failed"
        THEN wt' = [wt EXCEPT !.state = "rejected", !.polled = polled,
                      !.error = Some(ErrorOf("ProcessingError",
                                  IF IsSome(status.message) THEN <<Get(status.message)>>
                                  ELSE <<"Job processing failed">>,
                                  Some(wt.jobId)))]
        ELSE IF TruthyNumber(wt.timeout) /\ now' - wt.startTime > Get(wt.timeout)
        THEN wt' = [wt EXCEPT !.state = "rejected", !.polled = polled,
                      !.error = Some(ErrorOf("Error",
                                  <<"Job ", wt.jobId, " did not complete within ",
                                    Get(wt.timeout), " seconds">>, None))]
        ELSE wt' = [wt EXCEPT !.state = "sleeping", !.polled = polled,
                      !.notified = IF wt.onStatus /\ Some(status.status) # wt.lastStatus
                                   THEN Append(wt.notified, status.status) ELSE wt.notified,
                      !.lastStatus = IF wt.onStatus /\ Some(status.status) # wt.lastStatus
                                     THEN Some(status.status) ELSE wt.lastStatus]
  /\ UNCHANGED <<mediaVars, waits, imp, fileVars>>

\* 'await this.status(jobId)' rejected: the interceptor's error leaves wait
StatusRejects(code, latency) ==
  /\ wt.state = "polling"
  /\ now' = now + latency
  /\ wt' = [wt EXCEPT !.state = "rejected",
                      !.polled = Append(wt.polled, [status |-> "error", message |-> None, at |-> now']),
                      !.error = Some(handleApiError(code, "request failed"))]
  /\ UNCHANGED <<mediaVars, waits, imp, fileVars>>

\* setTimeout(resolve, pollSeconds * 1000) fires, no earlier than the delay
\* (a delay below 1 ms counts as 1 ms) and late after it; the loop sends the
\* next status request
SleepEnds(late) ==
  /\ wt.state = "sleeping"
  /\ Len(wt.polled) < MaxPolls
  /\ now' = now + Max(wt.pollSeconds, TicksPerMs) + late
  /\ wt' = [wt EXCEPT !.state = "polling"]
  /\ UNCHANGED <<mediaVars, waits, imp, fileVars>>

\* MediaContext.tempPath(suffix, prefix): a fresh name under the temp root,
\* recorded in _tempFiles. Returns the path
tempPath(suffix, prefix) == TempName(prefix, temps + 1, suffix)

\* MediaContext.cleanup(): unlinks every recorded path that exists, then
\* clears the registry
MediaContext_cleanup ==
  /\ disk' = disk \ tempFiles
  /\ tempFiles' = {}
  /\ ret' = [op |-> "cleanup", recv |-> <<>>, val |-> <<>>]
  /\ UNCHANGED <<bgs, fgs, layers, comps, handles, calls, runs, spawned, progress, proc,
                 now, waits, wt, imp, temps>>

\* How a run of the probing tool can end: with its JSON, with a nonzero
\* exit, killed at the timeout, with output that is not JSON, or with JSON
\* that lists no video stream
ProbeOutcomes == {"ok", "exit", "timeout", "unparsable", "no_stream"}

\* (ProbeRun that takes the tool's answer whatever the outcome)
ProbeRunIgnoresOutcome(path, outcome) == _probeVideoInfo(path)

\* VideoSource.probeAndStore(path) on a run of the tool that ended in
\* outcome: the probed record, or the fallback record
ProbeRun(path, outcome) == IF outcome = "ok" THEN _probeVideoInfo(path) ELSE _fallbackInfo(path)

\* What a successful dimension probe reports for the files used here
FrameOf(path) ==
  CASE path = "bg.mp4" -> <<1920, 1080, 25>>
    [] path = "bg_silent.webm" -> <<640, 480, 30>>
    [] OTHER -> <<1280, 720, 30>>

\* _probeVideoDimensions / _probeImageDimensions on a run that ended in
\* outcome: the dimensions, or the error thrown
ProbeDimensions(what, path, outcome) ==
  IF outcome = "ok" THEN [ok |-> TRUE, frame |-> FrameOf(path), error |-> ""]
  ELSE IF outcome = "timeout"
  THEN [ok |-> FALSE, frame |-> <<>>, error |-> "Timeout while probing " \o what]
  ELSE [ok |-> FALSE, frame |-> <<>>,
        error |-> "Failed to probe " \o what \o " dimensions for " \o path]

\* The outcome of a factory call: the object made, or the error thrown
Made(op, args, id) == [op |-> op, recv |-> <<>>, val |-> <<id>>, args |-> args, threw |-> None]
Threw(op, args, error) ==
  [op |-> op, recv |-> <<>>, val |-> <<>>, args |-> args, threw |-> Some(error)]

\* Background.fromVideo(pathOrUrl): the dimension probe, whose error is
\* thrown on, then the VideoBackground and the metadata probe
Background_fromVideo(pathOrUrl, dims, info) ==
  /\ Len(bgs) < MaxBgs
  /\ LET d == ProbeDimensions("video", pathOrUrl, dims) IN
     IF ~d.ok
     THEN /\ bgs' = bgs
          /\ ret' = Threw("Background.fromVideo", <<pathOrUrl, dims, info>>, d.error)
     ELSE /\ bgs' = Append(bgs, [fromVideo(pathOrUrl, d.frame[1], d.frame[2], d.frame[3])
                                   EXCEPT !.videoSource = Some(ProbeRun(pathOrUrl, info))])
          /\ ret' = Made("Background.fromVideo", <<pathOrUrl, dims, info>>, Len(bgs) + 1)
  /\ UNCHANGED <<fgs, layers, comps, handles, calls, runs, spawned, progress, proc, apiVars>>

\* The image sources used here: a local file and two URLs, one whose
\* Content-Type or path gives the extension, one that falls back to .png
IsUrl(source) == source \in {"https://example.com/bg.jpg", "https://example.com/image"}
ImageExtension(imageUrl) == IF imageUrl = "https://example.com/bg.jpg" THEN ".jpg" ELSE ".png"

\* Background.fromImage(pathOrUrl, fps): a URL is first downloaded by
\* _downloadImageToTemp to ctx.tempPath('', 'downloaded_image_') plus the
\* extension, which throws when the download fails; then the dimension
\* probe, whose error is thrown on, then the ImageBackground
Background_fromImage(pathOrUrl, downloaded, dims) ==
  /\ Len(bgs) < MaxBgs
  /\ IsUrl(pathOrUrl) => temps < MaxTemps
  /\ LET args == <<pathOrUrl, downloaded, dims>>
         tempFilePathNoExt == tempPath("", "downloaded_image_")
         tempFilePath == tempFilePathNoExt \o ImageExtension(pathOrUrl)
         source == IF IsUrl(pathOrUrl) THEN tempFilePath ELSE pathOrUrl
         d == ProbeDimensions("image", source, dims)
     IN /\ IF IsUrl(pathOrUrl)
           THEN /\ tempFiles' = tempFiles \cup {tempFilePathNoExt}
                /\ temps' = temps + 1
                /\ disk' = IF downloaded THEN disk \cup {tempFilePath} ELSE disk
           ELSE UNCHANGED fileVars
        /\ IF IsUrl(pathOrUrl) /\ ~downloaded
           THEN /\ bgs' = bgs
                /\ ret' = Threw("Background.fromImage", args,
                                "Failed to download image from " \o pathOrUrl)
           ELSE IF ~d.ok
           THEN /\ bgs' = bgs
                /\ ret' = Threw("Background.fromImage", args, d.error)
           ELSE /\ bgs' = Append(bgs, ImageBackground(source, d.frame[1], d.frame[2], 30,
                                                      FALSE, 100))
                /\ ret' = Made("Background.fromImage", args, Len(bgs) + 1)
  /\ UNCHANGED <<fgs, layers, comps, handles, calls, runs, spawned, progress, proc,
                 now, waits, wt, imp>>

\* The Foreground factories that probe, each on a run of the tool that ended
\* in outcome, and fromPngSequence, which does not probe
ForegroundFactories == {"fromWebmVp9", "fromMovProres", "fromStackedVideo", "fromVideoAndMask",
                        "fromUrl", "fromPngSequence"}
Foreground_from(factory, path, outcome) ==
  /\ Len(fgs) < MaxFgs
  /\ LET made == CASE factory = "fromWebmVp9" -> fromWebmVp9(path)
                   [] factory = "fromMovProres" -> fromMovProres(path)
                   [] factory = "fromStackedVideo" -> fromStackedVideo(path)
                   [] factory = "fromVideoAndMask" -> fromVideoAndMask(path, "mask.mp4", None)
                   [] factory = "fromUrl" -> fromWebmVp9(path)
                   [] factory = "fromPngSequence" -> fromPngSequence(path)
     IN fgs' = Append(fgs, IF factory = "fromPngSequence" THEN made
                           ELSE [made EXCEPT !._videoInfo = Some(ProbeRun(path, outcome))])
  /\ ret' = Made("Foreground." \o factory, <<path, outcome>>, Len(fgs) + 1)
  /\ UNCHANGED <<bgs, layers, comps, handles, calls, runs, spawned, progress, proc, apiVars>>

\* Importer.removeBackground(video, client, options, waitPollSeconds,
\* onStatus) up to its first await: _createJob asks _publicUrlOk about a URL
\* and creates an upload job for a file
Importer_removeBackground(video, waitPollSeconds, onStatus) ==
  /\ imp.pc \in {"idle", "resolved", "rejected"}
  /\ wt.state \in {"idle", "returned", "rejected"}
  /\ imp.n < MaxImports
  /\ imp' = NewImport(IF video.kind = "url" THEN "head" ELSE "createJobFile", video,
                      waitPollSeconds, onStatus,
                      IF video.kind = "url" THEN <<"head">> ELSE <<"createJobFile">>,
                      imp.n + 1, Len(fgs))
  /\ UNCHANGED <<mediaVars, now, waits, wt, fileVars>>

\* _publicUrlOk answers: a usable public URL gives a URL job, anything else
\* (an error, a status other than 200 / 204, more than 1 GB) an upload job
PublicUrlOkReturns(ok) ==
  /\ imp.pc = "head"
  /\ imp' = [Begin(imp, IF ok THEN "createJobUrl" ELSE "createJobFile")
               EXCEPT !.publicUrlOk = Some(ok)]
  /\ UNCHANGED <<mediaVars, now, waits, wt, fileVars>>

\* (CreateJobResolves with the upload left out)
CreateJobStartsAtOnce(jobId) ==
  /\ imp.pc \in {"createJobUrl", "createJobFile"}
  /\ imp' = [Begin(imp, "startJob") EXCEPT !.jobId = jobId]
  /\ UNCHANGED <<mediaVars, now, waits, wt, fileVars>>

\* createJobUrl / createJobFile resolved with the job: a URL job is started,
\* an upload job first has its file PUT to the signed URL
CreateJobResolves(jobId) ==
  /\ imp.pc \in {"createJobUrl", "createJobFile"}
  /\ imp' = [Begin(imp, IF imp.pc = "createJobUrl" THEN "startJob" ELSE "upload")
               EXCEPT !.jobId = jobId]
  /\ UNCHANGED <<mediaVars, now, waits, wt, fileVars>>

\* _signedPut resolved: the job is started
SignedPutResolves ==
  /\ imp.pc = "upload"
  /\ imp' = Begin(imp, "startJob")
  /\ UNCHANGED <<mediaVars, now, waits, wt, fileVars>>

\* startJob resolved: client.wait(jobId, {pollSeconds, onStatus}) is called,
\* without a timeout
StartJobResolves ==
  /\ imp.pc = "startJob"
  /\ waits < MaxWaits
  /\ imp' = Begin(imp, "wait")
  /\ waits' = waits + 1
  /\ wt' = NewWait("polling", imp.jobId, imp.waitPollSeconds, None, imp.onStatus, now)
  /\ UNCHANGED <<mediaVars, now, fileVars>>

\* A request of createJob, upload, startJob or the download rejected:
\* removeBackground rejects with its error
RequestRejects(code) ==
  /\ imp.pc \in {"createJobUrl", "createJobFile", "upload", "startJob", "download"}
  /\ imp' = Reject(imp, IF imp.pc = "upload"
                        THEN ErrorOf("Error", <<"Failed to upload file: ">>, None)
                        ELSE IF imp.pc = "download"
                        THEN ErrorOf("Error", <<"Failed to download ">>, None)
                        ELSE handleApiError(code, "request failed"))
  /\ UNCHANGED <<mediaVars, now, waits, wt, fileVars>>

\* client.wait settled. Rejected: removeBackground rejects with its error.
\* Returned: a status other than completed throws, _fromEndpoint throws on a
\* status without processed_video_url, else the download to
\* _tempPath(suffix) begins; that path is not recorded in _tempFiles
WaitSettles ==
  /\ imp.pc = "wait"
  /\ wt.state \in {"returned", "rejected"}
  /\ IF wt.state = "rejected"
     THEN imp' = Reject(imp, Get(wt.error)) /\ temps' = temps
     ELSE LET status == Get(wt.result) IN
          IF status.status # "completed"
          THEN /\ imp' = Reject(imp, ErrorOf("Error",
                                  IF IsSome(status.message) THEN <<Get(status.message)>>
                                  ELSE <<"Background removal failed">>, None))
               /\ temps' = temps
          ELSE IF ~IsSome(status.processed_video_url)
          THEN /\ imp' = Reject(imp, ErrorOf("Error",
                                  <<"No processed video URL in job status">>, None))
               /\ temps' = temps
          ELSE /\ temps < MaxTemps
               /\ imp' = [Begin(imp, "download") EXCEPT !.localPath =
                            TempName("vbr_", temps + 1,
                                     _getFileExtensionFromUrl(Get(status.processed_video_url)))]
               /\ temps' = temps + 1
  /\ UNCHANGED <<mediaVars, now, waits, wt, disk, tempFiles>>

\* Importer._handleZipBundle(zipPath) on an archive holding members: the
\* directory made by mkdtemp and the files extracted into it
ExtractDir(n) == TempName("pro_bundle_", n, "")
Extracted(n, members) == {ExtractDir(n) \o "/" \o m : m \in members}

\* The download finished and the file is at localPath. A .zip is extracted
\* by _handleZipBundle, which throws when color.mp4 or alpha.mp4 is missing
\* and else builds the RGB+mask Foreground; any other file goes to
\* Foreground.fromFile. removeBackground resolves with the Foreground
DownloadFinishes(members) ==
  /\ imp.pc = "download"
  /\ Len(fgs) < MaxFgs
  /\ LET n == temps + 1
         dir == ExtractDir(n)
         ext == _getFileExtension(imp.localPath)
     IN IF ext = ".zip"
        THEN /\ temps < MaxTemps
             /\ temps' = n
             /\ disk' = disk \cup {imp.localPath} \cup Extracted(n, members)
             /\ IF {"color.mp4", "alpha.mp4"} \subseteq members
                THEN /\ fgs' = Append(fgs, fromVideoAndMask(dir \o "/color.mp4", dir \o "/alpha.mp4",
                                         IF "audio.m4a" \in members
                                         THEN Some(dir \o "/audio.m4a") ELSE None))
                     /\ imp' = [imp EXCEPT !.pc = "resolved", !.value = Some(Len(fgs) + 1)]
                ELSE /\ fgs' = fgs
                     /\ imp' = Reject(imp, ErrorOf("Error",
                                        <<"Failed to extract pro bundle ZIP: ">>, None))
        ELSE /\ temps' = temps
             /\ disk' = disk \cup {imp.localPath}
             /\ fgs' = Append(fgs, IF ext = ".webm" THEN fromWebmVp9(imp.localPath)
                                   ELSE IF ext = ".mov" THEN fromMovProres(imp.localPath)
                                   ELSE fromStackedVideo(imp.localPath))
             /\ imp' = [imp EXCEPT !.pc = "resolved", !.value = Some(Len(fgs) + 1)]
  /\ UNCHANGED <<bgs, layers, comps, handles, ret, calls, runs, spawned, progress, proc,
                 now, waits, wt, tempFiles>>

CompIds == 1..Len(comps)
HandleIds == 1..Len(handles)
BgIds == 1..Len(bgs)
FgIds == 1..Len(fgs)
BgChoices == {None} \cup {Some(b) : b \in BgIds}

New(Bs) == \E bg \in Bs : NewComposition(bg)
SetCanvas(As) == \E c \in CompIds, a \in As : Composition_setCanvas(c, a[1], a[2], a[3])
SetDuration(Ds) == \E c \in CompIds, s \in Ds : Composition_setDuration(c, s)
WithBackground(Bs) == \E c \in CompIds, bg \in Bs : Composition_background(c, bg)
Add(Fs) == \E c \in CompIds, f \in Fs : Composition_add(c, f, None)
AddNamed(Fs, Ns) == \E c \in CompIds, f \in Fs, n \in Ns : Composition_add(c, f, Some(n))
At(As, Os) == \E h \in HandleIds, a \in As, dx \in Os, dy \in Os : LayerHandle_at(h, a, dx, dy)
Xy(Es) == \E h \in HandleIds, e \in Es : LayerHandle_xy(h, e[1], e[2])
Size(Ss) == \E h \in HandleIds, s \in Ss : LayerHandle_size(h, s)
Opacity(As) == \E h \in HandleIds, a \in As : LayerHandle_opacity(h, a)
Rotate(Ds) == \E h \in HandleIds, d \in Ds : LayerHandle_rotate(h, d)
Crop(Rs) == \E h \in HandleIds, r \in Rs : LayerHandle_crop(h, r)
Start(Ts) == \E h \in HandleIds, s \in Ts : LayerHandle_start(h, s)
End(Ts) == \E h \in HandleIds, s \in Ts : LayerHandle_end(h, s)
Duration(Ts) == \E h \in HandleIds, s \in Ts : LayerHandle_duration(h, s)
Subclip(Ts) == \E h \in HandleIds, t \in Ts : LayerHandle_subclip(h, t[1], t[2])
Audio(Vs) == \E h \in HandleIds, a \in Vs : LayerHandle_audio(h, a[1], a[2])
Z(Zs) == \E h \in HandleIds, z \in Zs : LayerHandle_z(h, z)
Alpha(Es) == \E h \in HandleIds, en \in Es : LayerHandle_alpha(h, en)
BgAudio(Bs, Vs) == \E b \in Bs, a \in Vs : BackgroundAudio(b, a[1], a[2])
BgSubclip(Bs, Ts) == \E b \in Bs, t \in Ts : BackgroundSubclip(b, t[1], t[2])
FromVideoAndMask(As) == \E a \in As : Foreground_fromVideoAndMask(a[1], a[2], a[3], a[4])
FgSubclip(Fs, Ts) == \E f \in Fs, t \in Ts : ForegroundSubclip(f, t[1], t[2])
DryRun == \E c \in CompIds, w \in BOOLEAN : Composition_dryRun(c, w)
ToFile(Es) ==
  \E c \in CompIds, e \in Es, p \in BOOLEAN, v \in BOOLEAN, w \in BOOLEAN :
    Composition_toFile(c, e, p, v, w)
Stderr(Ds) == \E d \in Ds : ProcessStderr(d)
Wait(Js, Ps, Ts) ==
  \E j \in Js, p \in Ps, t \in Ts, o \in BOOLEAN : VideoBGRemoverClient_wait(j, p, t, o)
Polled(Rs, Ls) == \E r \in Rs, l \in Ls : StatusResolves(r, l)
PollFails(Cs, Ls) == \E c \in Cs, l \in Ls : StatusRejects(c, l)
Slept(Ls) == \E l \in Ls : SleepEnds(l)
RemoveBackground(Vs, Ps) ==
  \E v \in Vs, p \in Ps, o \in BOOLEAN : Importer_removeBackground(v, p, o)
HeadAnswers == \E ok \in BOOLEAN : PublicUrlOkReturns(ok)
JobCreated(Js) == \E j \in Js : CreateJobResolves(j)
Uploaded == SignedPutResolves
Started == StartJobResolves
RequestFails(Cs) == \E c \in Cs : RequestRejects(c)
Waited == WaitSettles
Downloaded(As) == \E m \in As : DownloadFinishes(m)
Cleanup == MediaContext_cleanup
FromVideo(Ps, Os) == \E p \in Ps, d \in Os, i \in Os : Background_fromVideo(p, d, i)
FromImage(Ps, Os) ==
  \E p \in Ps, ok \in BOOLEAN, d \in Os : Background_fromImage(p, ok, d)
ForegroundFrom(Fs, Ps, Os) == \E f \in Fs, p \in Ps, o \in Os : Foreground_from(f, p, o)
Close == \E code \in ExitCodes : ProcessClose(code)
Error == ProcessError

Next ==
  \/ New(BgChoices) \/ SetCanvas(CanvasArgs) \/ SetDuration(ExplicitDurations)
  \/ WithBackground(BgIds)
  \/ Add(FgIds) \/ AddNamed(FgIds, Names)
  \/ At(Anchors, Offsets) \/ Xy(RawExprs) \/ Size(SizeArgs) \/ Opacity(Alphas)
  \/ Rotate(Degrees) \/ Crop(Crops) \/ Start(Starts) \/ End(Ends) \/ Duration(Durations)
  \/ Subclip(Trims) \/ Audio(AudioArgs) \/ Z(ZValues) \/ Alpha(BOOLEAN)
  \/ BgAudio(BgIds, AudioArgs) \/ BgSubclip(BgIds, Trims) \/ FgSubclip(FgIds, Trims)
  \/ FromVideoAndMask(BundleArgs)
  \/ DryRun \/ ToFile({h264, transparentWebm}) \/ Stderr(Chunks) \/ Close \/ Error
  \/ Wait(JobIds, PollIntervals, Timeouts) \/ Polled(Responses, Latencies)
  \/ PollFails(HttpFailures, Latencies) \/ Slept(Lates)
  \/ RemoveBackground(Videos, {Sec(1), Sec(2)}) \/ HeadAnswers \/ JobCreated(JobIds)
  \/ Uploaded \/ Started \/ RequestFails(HttpFailures) \/ Waited \/ Downloaded(Archives)
  \/ Cleanup
  \/ FromVideo(VideoSources, ProbeOutcomes) \/ FromImage(ImageSources, ProbeOutcomes)
  \/ ForegroundFrom(ForegroundFactories, VideoSources, ProbeOutcomes)

Spec == Init /\ [][Next]_vars

\* ------------------------------------------------------ focused behaviours
\* The ids that Init gives the assets
BgOf(source) ==
  CHOOSE b \in 1..Len(BgAssets) :
    BgAssets[b].source = Some(source) \/ BgAssets[b].color = Some(source)
FgOf(path) == CHOOSE f \in 1..Len(FgAssets) : FgAssets[f].primaryPath = path
ColorBg == BgOf("#FF0000")
ImageBg == BgOf("bg.png")
VideoBg == BgOf("bg.mp4")
SilentVideoBg == BgOf("bg_silent.webm")
EmptyBg == CHOOSE b \in 1..Len(BgAssets) : BgAssets[b].kind = "empty"
ZeroWidthBg == BgOf("#00FF00")
WebmFg == FgOf("fg.webm")
MovFg == FgOf("fg.mov")
BundleFg == FgOf("rgb.mp4")
BundleAudioFg == FgOf("rgb.webm")
StackedFg == FgOf("stacked.mp4")
PngFg == FgOf("frames.zip")

\* Building a composition of any of the four compilable formats, toggling the
\* settings that add or remove a statement of the graph, and compiling it
NextGraph ==
  \/ New({None, Some(ColorBg), Some(VideoBg)})
  \/ Add({WebmFg, MovFg, BundleFg, BundleAudioFg, StackedFg})
  \/ Alpha({FALSE})
  \/ Start({Sec(5)})
  \/ Crop(Crops)
  \/ Size({<<"px", None, None, None, None>>, <<"scale", None, None, None, Some(2)>>})
  \/ Rotate({90})
  \/ Opacity({50})
  \/ Audio({<<FALSE, 100>>, <<TRUE, 50>>})
  \/ Z({-1})
  \/ DryRun

SpecGraph == Init /\ [][NextGraph]_vars

\* ------------------------------------------------ reading a compiled argv
\* The result of the dryRun that has just returned
Compiled == ret.op = "dryRun" /\ ret.val[1].ok
CompiledArgv == ret.val[1].argv
CompiledComp == comps[ret.recv[1]]
CompiledLayers == LayersOf(CompiledComp)

\* The statements of the -filter_complex value, in order (none without one)
GraphOf(argv) ==
  IF \E k \in 1..Len(argv) : argv[k][1] = "fc"
  THEN argv[CHOOSE k \in 1..Len(argv) : argv[k][1] = "fc"][2]
  ELSE <<>>

\* The tokens that follow each -i, in order: input n is InputsOf(argv)[n + 1]
InputsOf(argv) ==
  LET at == {k \in 1..Len(argv) : argv[k] = S("-i")}
      nth(n) == CHOOSE k \in at : Cardinality({j \in at : j < k}) = n - 1
  IN [n \in 1..Cardinality(at) |-> argv[nth(n) + 1]]

\* The tokens that follow each -map
MapsOf(argv) ==
  LET at == {k \in 1..Len(argv) : argv[k] = S("-map")}
      nth(n) == CHOOSE k \in at : Cardinality({j \in at : j < k}) = n - 1
  IN [n \in 1..Cardinality(at) |-> argv[nth(n) + 1]]

IsInRef(l) == l[1] = "in"

\* The input slots <<k, j>> of the statements of G: input j of statement k
InputSlots(G) == UNION {{<<k, j>> : j \in 1..Len(G[k].ins)} : k \in 1..Len(G)}

\* How many times label l is consumed: as a statement input or by a -map
Consumptions(argv, l) ==
  LET G == GraphOf(argv)
      M == MapsOf(argv)
  IN Cardinality({kj \in InputSlots(G) : G[kj[1]].ins[kj[2]] = l})
       + Cardinality({n \in 1..Len(M) : M[n] = <<"label", l>>})

\* C1: the statement list of -filter_complex is dependency-correct: every
\* statement input is [n:v] or [n:a] of an emitted -i input or a label that an
\* earlier statement produced, no label is produced twice, and every produced
\* label is consumed exactly once, by a later statement or by a -map.
C1_GraphDependencyCorrect ==
  Compiled =>
    LET argv == CompiledArgv
        G == GraphOf(argv)
        n == Len(InputsOf(argv))
    IN /\ \A k \in 1..Len(G) : \A j \in 1..Len(G[k].ins) :
            LET l == G[k].ins[j] IN
            IF IsInRef(l)
            THEN l[2] \in 0..(n - 1) /\ l[3] \in {"v", "a"}
            ELSE \E m \in 1..(k - 1) : l \in {G[m].outs[i] : i \in 1..Len(G[m].outs)}
       /\ \A k \in 1..Len(G) : Len(G[k].outs) = 1 /\ ~IsInRef(G[k].outs[1])
       /\ \A k1, k2 \in 1..Len(G) : k1 # k2 => G[k1].outs[1] # G[k2].outs[1]
       /\ \A k \in 1..Len(G) : Consumptions(argv, G[k].outs[1]) = 1
       /\ \A m \in 1..Len(MapsOf(argv)) :
            MapsOf(argv)[m][1] = "label" =>
              \E k \in 1..Len(G) : G[k].outs[1] = MapsOf(argv)[m][2]

\* A compile of three layers whose graph holds a mask merge, a timing shift,
\* an intermediate overlay and an audio mix
C1_Witness ==
  /\ Compiled
  /\ Len(CompiledLayers) = 3
  /\ LET G == GraphOf(CompiledArgv) IN
       /\ \E k \in 1..Len(G) : G[k].f = "alphamerge"
       /\ \E k \in 1..Len(G) : G[k].f = "setpts"
       /\ \E k \in 1..Len(G) : G[k].outs[1] = <<"tmp", 1, "">>
       /\ \E k \in 1..Len(G) : G[k].f = "amix"

\* ---------------------------------------------------------- input positions
\* The -i inputs a Foreground contributes: the video (or the RGB file), the
\* mask of a bundle, the separate audio file of a bundle
PathsOf(fg) ==
  << <<"path", fg.primaryPath>> >>
    \o (IF fg.format = "pro_bundle" THEN << <<"path", Get(fg.maskPath)>> >> ELSE <<>>)
    \o (IF fg.format = "pro_bundle" /\ IsSome(fg.audioPath)
        THEN << <<"path", Get(fg.audioPath)>> >> ELSE <<>>)

\* The position of the first input of layer i (from 0), counting every input
\* of the layers added before it after the background's input 0
RECURSIVE FirstInput(_, _)
FirstInput(ls, i) ==
  IF i = 0 THEN 1 ELSE FirstInput(ls, i - 1) + Len(PathsOf(fgs[ls[i].fg]))

\* The position of the input that carries layer i's audio
AudioInputOf(ls, i) ==
  FirstInput(ls, i)
    + (IF fgs[ls[i + 1].fg].format = "pro_bundle" /\ IsSome(fgs[ls[i + 1].fg].audioPath)
       THEN 2 ELSE 0)

\* Every [n:a] with n >= 1 that the graph or an audio -map reads
ForegroundAudioRefs(argv) ==
  LET G == GraphOf(argv)
      M == MapsOf(argv)
  IN {G[kj[1]].ins[kj[2]][2] : kj \in
        {x \in InputSlots(G) :
           /\ IsInRef(G[x[1]].ins[x[2]])
           /\ G[x[1]].ins[x[2]][3] = "a"
           /\ G[x[1]].ins[x[2]][2] >= 1}}
       \cup {M[m][2] : m \in {x \in 1..Len(M) : M[x][1] = "stream" /\ M[x][3] = "a" /\ M[x][2] >= 1}}

\* C3: the layers' inputs are emitted in add order after the background's
\* input 0 and take consecutive indices (one per direct-alpha or stacked
\* layer, two per RGB+mask layer, three with a separate audio file), and each
\* layer's graph statements and audio reference point at its own positions.
C3_InputIndicesInAddOrder ==
  Compiled =>
    LET argv == CompiledArgv
        ls == CompiledLayers
        ins == InputsOf(argv)
        G == GraphOf(argv)
    IN /\ Len(ins) = FirstInput(ls, Len(ls))
       /\ \A i \in 0..(Len(ls) - 1) :
            LET paths == PathsOf(fgs[ls[i + 1].fg]) IN
            \A j \in 1..Len(paths) : ins[FirstInput(ls, i) + j] = paths[j]
       /\ \A k \in 1..Len(G) : \A j \in 1..Len(G[k].ins) :
            LET l == G[k].ins[j]
                out == G[k].outs[1]
            IN (IsInRef(l) /\ out[1] = "layer") =>
                 /\ out[2] \in 0..(Len(ls) - 1)
                 /\ l[3] = "v"
                 /\ l[2] = FirstInput(ls, out[2])
                             + (IF G[k].f = "format" /\ G[k].p = <<"gray">> THEN 1 ELSE 0)
       /\ \A i \in 0..(Len(ls) - 1) :
            Cardinality({k \in 1..Len(G) :
                           /\ G[k].f = "overlay"
                           /\ \/ G[k].ins[2] = InRef(FirstInput(ls, i), "v")
                              \/ (G[k].ins[2][1] = "layer" /\ G[k].ins[2][2] = i)}) = 1
       /\ ForegroundAudioRefs(argv)
            = {AudioInputOf(ls, i) : i \in {x \in 0..(Len(ls) - 1) : ls[x + 1].audio_enabled}}

\* A compile in which a bundle with a separate audio file is followed by two
\* more layers, one of them a bundle, and the last layer is moved below the
\* first in z
C3_Witness ==
  /\ Compiled
  /\ Len(CompiledLayers) = 3
  /\ CompiledLayers[1].fg = BundleAudioFg
  /\ CompiledLayers[2].fg = BundleFg
  /\ CompiledLayers[3].z < CompiledLayers[1].z
  /\ Len(InputsOf(CompiledArgv)) = 7

\* ------------------------------------------------------------ overlay order
\* Adding layers, moving them in z (below, onto and above the default indices)
\* and compiling
NextOrder ==
  \/ New({Some(ColorBg)})
  \/ Add({WebmFg, BundleFg})
  \/ Z(ZValues)
  \/ Size({<<"px", None, None, None, None>>})
  \/ DryRun

SpecOrder == Init /\ [][NextOrder]_vars

\* The overlay statements of a graph, in the order of the statement list
OverlaysOf(G) ==
  LET at == {k \in 1..Len(G) : G[k].f = "overlay"}
      nth(n) == CHOOSE k \in at : Cardinality({j \in at : j < k}) = n - 1
  IN [n \in 1..Cardinality(at) |-> G[nth(n)]]

\* The add index (from 0) of the layer an overlay statement draws: its second
\* input is a label of that layer or the layer's own video input
OverlaidLayer(stmt, ls) ==
  IF IsInRef(stmt.ins[2])
  THEN CHOOSE i \in 0..(Len(ls) - 1) : FirstInput(ls, i) = stmt.ins[2][2]
  ELSE stmt.ins[2][2]

\* C2: the overlay statements appear in ascending z of their layers, layers of
\* equal z in add order; the first overlay's base is [0:v], each later one's
\* base is the previous overlay's output, and the last one produces [out];
\* add gives the k-th layer (from 0) z = k.
C2_OverlaysInZOrder ==
  /\ ret.op = "add" =>
       /\ handles[ret.val[1]][2] = Len(comps[ret.recv[1]].layers) - 1
       /\ LayerOf(ret.val[1]).z = handles[ret.val[1]][2]
  /\ Compiled =>
       LET ls == CompiledLayers
           O == OverlaysOf(GraphOf(CompiledArgv))
           at(k) == OverlaidLayer(O[k], ls)
       IN /\ Len(O) = Len(ls)
          /\ \A k \in 1..Len(O) : \A m \in 1..Len(O) : (k # m) => at(k) # at(m)
          /\ \A k \in 1..(Len(O) - 1) :
               \/ ls[at(k) + 1].z < ls[at(k + 1) + 1].z
               \/ (ls[at(k) + 1].z = ls[at(k + 1) + 1].z /\ at(k) < at(k + 1))
          /\ Len(O) >= 1 =>
               /\ O[1].ins[1] = InRef(0, "v")
               /\ O[Len(O)].outs = << <<"out", 0, "">> >>
          /\ \A k \in 2..Len(O) : O[k].ins[1] = O[k - 1].outs[1]

\* A compile of three layers in which two share a z and the add order is not
\* the z order
C2_Witness ==
  /\ Compiled
  /\ Len(CompiledLayers) = 3
  /\ CompiledLayers[1].z = CompiledLayers[3].z
  /\ CompiledLayers[2].z < CompiledLayers[1].z

\* ------------------------------------------------------- duration resolution
\* Compositions over every kind of background, with layers of known and of
\* unknown duration, with and without an explicit duration
NextDuration ==
  \/ New({None, Some(ColorBg), Some(VideoBg), Some(SilentVideoBg)})
  \/ Add({WebmFg, MovFg, BundleFg, StackedFg})
  \/ SetDuration(ExplicitDurations)
  \/ DryRun

SpecDuration == Init /\ [][NextDuration]_vars

\* The positive probed durations of a composition's layers
LayerDurations(c) ==
  {Get(getDuration(fgs[layers[c.layers[i]].fg]._videoInfo)) :
     i \in {x \in 1..Len(c.layers) :
              /\ IsSome(getDuration(fgs[layers[c.layers[x]].fg]._videoInfo))
              /\ Get(getDuration(fgs[layers[c.layers[x]].fg]._videoInfo)) > 0}}

\* The three rules, read off the composition's state
ThreeRules(c) ==
  IF c.explicitDuration # None THEN c.explicitDuration
  ELSE IF /\ c.background # None
          /\ bgs[Get(c.background)].kind = "video"
          /\ getDuration(bgs[Get(c.background)].videoSource) # None
          /\ Get(getDuration(bgs[Get(c.background)].videoSource)) > 0
       THEN getDuration(bgs[Get(c.background)].videoSource)
  ELSE IF LayerDurations(c) # {}
       THEN Some(CHOOSE d \in LayerDurations(c) : \A e \in LayerDurations(c) : e <= d)
  ELSE None

\* The value that follows -t in an argv, <<>> without one
DurationArg(argv) ==
  IF \E k \in 1..(Len(argv) - 1) : argv[k] = S("-t") /\ argv[k + 1][1] = "n"
  THEN Some(argv[(CHOOSE k \in 1..(Len(argv) - 1) : argv[k] = S("-t") /\ argv[k + 1][1] = "n") + 1][2])
  ELSE None

\* C4: in every state of every composition the resolved duration follows the
\* three rules: the explicit setDuration value; else the positive probed
\* duration of a video background; else the largest positive probed duration
\* of the layers' foregrounds; else unresolved.  A compile limits the output
\* to the resolved value.
C4_DurationThreeRules ==
  /\ \A c \in CompIds : _getCompositionDuration(comps[c]) = ThreeRules(comps[c])
  /\ Compiled =>
       (ThreeRules(CompiledComp) # None /\ Get(ThreeRules(CompiledComp)) > 0 =>
          DurationArg(CompiledArgv) = ThreeRules(CompiledComp))

\* The example: override 7 over a video background of 20 and layers of 5 and 3
C4_Witness ==
  /\ Compiled
  /\ CompiledComp.explicitDuration = Some(Sec(7))
  /\ CompiledComp.background = Some(VideoBg)
  /\ getDuration(bgs[VideoBg].videoSource) = Some(Sec(20))
  /\ LayerDurations(CompiledComp) = {Sec(5), Sec(3)}
  /\ DurationArg(CompiledArgv) = Some(Sec(7))

\* --------------------------------------------------------- canvas resolution
\* Compositions with every background (one of them with a zero width), with
\* and without an explicit canvas, compiled and exported
NextCanvas ==
  \/ New(BgChoices)
  \/ SetCanvas(CanvasArgs)
  \/ Add({WebmFg})
  \/ DryRun
  \/ ToFile({h264})
  \/ Close
  \/ Error

SpecCanvas == Init /\ [][NextCanvas]_vars

CanvasError == "Cannot determine canvas size"

\* The width, height and fps an attached Background carries
DimensionsOf(c) ==
  <<bgs[Get(c.background)].width, bgs[Get(c.background)].height, bgs[Get(c.background)].fps>>

\* The canvases an argv was built for: the size and rate of a generated
\* backdrop, and the box a layer of the default size is scaled into
GeneratedCanvases(argv) ==
  {<<argv[k][4], argv[k][5], argv[k][6]>> : k \in {x \in 1..Len(argv) : argv[x][1] = "gen"}}
ScaleBoxes(argv) ==
  LET G == GraphOf(argv) IN
  {<<G[k].p[1][1][1][2], G[k].p[1][1][2][2]>> : k \in {x \in 1..Len(G) : G[x].f = "scale"}}

\* The build of argv used canvas <<w, h, fps>>
BuiltFor(r, canvas) ==
  /\ r.ok
  /\ GeneratedCanvases(r.argv) \subseteq {canvas}
  /\ ScaleBoxes(r.argv) \subseteq {<<canvas[1], canvas[2]>>}

\* The export that has just been started failed on the canvas: rejected
\* promise, no process, no onProgress call
ExportFailedOnCanvas ==
  /\ proc.promise = <<"rejected", CanvasError>>
  /\ spawned = 0
  /\ progress = <<>>

HasDimensions(c) ==
  /\ c.background # None
  /\ DimensionsOf(c)[1] # 0
  /\ DimensionsOf(c)[2] # 0
  /\ DimensionsOf(c)[3] # 0

NextAudio ==
  \/ BgAudio({VideoBg}, {<<TRUE, 50>>})
  \/ New({None} \cup {Some(b) : b \in BgIds \ {ImageBg, EmptyBg, ZeroWidthBg}})
  \/ Add({WebmFg, BundleAudioFg})
  \/ Audio({<<FALSE, 100>>, <<TRUE, 50>>})
  \/ Start({1, Sec(5)})
  \/ DryRun

SpecAudio == Init /\ [][NextAudio]_vars

\* The background contributes audio
BackgroundSounds(c) ==
  /\ c.background # None
  /\ bgs[Get(c.background)].audioEnabled
  /\ bgs[Get(c.background)].kind = "video"
  /\ hasAudioStreams(bgs[Get(c.background)].videoSource)

\* The audio-enabled layers (add indices from 0)
SoundingLayers(c) == {i \in 0..(Len(c.layers) - 1) : layers[c.layers[i + 1]].audio_enabled}

\* |S|
SourceCount(c) == Cardinality(SoundingLayers(c)) + (IF BackgroundSounds(c) THEN 1 ELSE 0)

\* comp_start of layer i, 0 when it was never set
StartOf(c, i) ==
  IF layers[c.layers[i + 1]].comp_start = None THEN 0
  ELSE Get(layers[c.layers[i + 1]].comp_start)

\* The statements of the audio path, in order
AudioStatementsOf(G) ==
  LET at == {k \in 1..Len(G) : G[k].f \in {"adelay", "volume", "anull", "amix"}}
      nth(n) == CHOOSE k \in at : Cardinality({j \in at : j < k}) = n - 1
  IN [n \in 1..Cardinality(at) |-> G[nth(n)]]

AudioOut == <<"audio_out", 0, "">>

\* The audio -map tokens and the -an tokens of an argv
AudioMapsOf(argv) ==
  LET M == MapsOf(argv) IN
  {m \in 1..Len(M) : (M[m][1] = "stream" /\ M[m][3] = "a") \/ M[m] = <<"label", AudioOut>>}
MutesOf(argv) == {k \in 1..Len(argv) : argv[k] = S("-an")}

\* C6: with S the audio-enabled layers plus the background when its audio is
\* enabled and it has a probed audio stream: |S| = 0 gives -an and no audio
\* map; |S| = 1 with no delay and volume 1 maps that input directly with no
\* audio statement; |S| = 1 otherwise gives a delay-then-volume chain ending
\* in [audio_out], mapped; |S| >= 2 gives exactly one mixer with inputs = |S|
\* and duration=longest producing [audio_out], mapped; always exactly one of
\* -an and one audio -map.
C6_AudioBranches ==
  Compiled =>
    LET c == CompiledComp
        argv == CompiledArgv
        A == AudioStatementsOf(GraphOf(argv))
        M == MapsOf(argv)
        n == SourceCount(c)
        only == CHOOSE i \in SoundingLayers(c) : TRUE
        plain == IF BackgroundSounds(c)
                 THEN bgs[Get(c.background)].audioVolume = 100
                 ELSE StartOf(c, only) <= 0 /\ layers[c.layers[only + 1]].audio_volume = 100
        input == IF BackgroundSounds(c) THEN 0 ELSE AudioInputOf(CompiledLayers, only)
        mapped == \E m \in AudioMapsOf(argv) : M[m] = <<"label", AudioOut>>
    IN /\ Cardinality(AudioMapsOf(argv)) + Cardinality(MutesOf(argv)) = 1
       /\ n = 0 => Cardinality(MutesOf(argv)) = 1 /\ Len(A) = 0
       /\ (n = 1 /\ plain) =>
            /\ Len(A) = 0
            /\ \E m \in AudioMapsOf(argv) : M[m] = <<"stream", input, "a", TRUE>>
       /\ (n = 1 /\ ~plain) =>
            /\ mapped
            /\ Len(A) \in {1, 2}
            /\ A[1].ins = << InRef(input, "a") >>
            /\ A[Len(A)].f \in {"volume", "anull"}
            /\ A[Len(A)].outs = <<AudioOut>>
            /\ Len(A) = 2 => A[1].f = "adelay" /\ A[2].ins = A[1].outs
       /\ n >= 2 =>
            /\ mapped
            /\ Cardinality({k \in 1..Len(A) : A[k].f = "amix"}) = 1
            /\ A[Len(A)].f = "amix"
            /\ A[Len(A)].p = <<n, "duration=longest">>
            /\ Len(A[Len(A)].ins) = n
            /\ A[Len(A)].outs = <<AudioOut>>

\* A compile with exactly one source that is both delayed and turned down
C6_Witness ==
  /\ Compiled
  /\ SourceCount(CompiledComp) = 1
  /\ \E i \in SoundingLayers(CompiledComp) :
       StartOf(CompiledComp, i) > 0 /\ CompiledLayers[i + 1].audio_volume = 50
  /\ Len(AudioStatementsOf(GraphOf(CompiledArgv))) = 2

\* C7: a foreground audio source passes through a delay filter iff its own
\* layer's composition-start is > 0, the delay being floor(start * 1000) ms of
\* that layer; the background's audio source is never delayed.
C7_DelayOwnLayerOnly ==
  Compiled =>
    LET c == CompiledComp
        G == GraphOf(CompiledArgv)
        delaysOf(input) == {k \in 1..Len(G) : G[k].f = "adelay" /\ G[k].ins = << InRef(input, "a") >>}
    IN /\ \A i \in SoundingLayers(c) :
            LET D == delaysOf(AudioInputOf(CompiledLayers, i)) IN
            IF StartOf(c, i) > 0
            THEN Cardinality(D) = 1
                   /\ \A k \in D : G[k].p = << StartOf(c, i) \div TicksPerMs >>
            ELSE D = {}
       /\ delaysOf(0) = {}

\* ------------------------------------------------- Background.audio (C8)
\* Backgrounds derived from the assets by audio() and subclip()
NextBg ==
  \/ BgAudio(BgIds, AudioArgs)
  \/ BgSubclip(BgIds, Trims)

SpecBg == Init /\ [][NextBg]_vars

\* C8: bg.audio(enabled, volume) leaves the receiver as it was and returns an
\* instance equal to the receiver in every field but audioEnabled and
\* audioVolume (the volume clamped to [0, 1]); for a video background the
\* probed metadata is part of that, so getDuration() and hasAudio() of the
\* result are the receiver's.
C8_AudioCopiesEveryField ==
  ret.op = "Background.audio" =>
    LET old == bgs[ret.recv[1]]
        new == bgs[ret.val[1]]
    IN /\ \A i \in 1..Len(BgAssets) : bgs[i] = BgAssets[i]
       /\ new = [old EXCEPT !.audioEnabled = ret.args[1],
                            !.audioVolume = Clamp01(ret.args[2])]
       /\ Background_getDuration(new) = Background_getDuration(old)
       /\ hasAudio(new) = hasAudio(old)

\* ------------------------------------------------ Foreground.subclip (C9)
\* Foregrounds derived from the assets, and from each other, by subclip()
NextFg == FgSubclip(FgIds, Trims)

SpecFg == Init /\ [][NextFg]_vars

\* C9: fg.subclip(s, e) changes no existing Foreground (the receiver
\* included) and returns a new Foreground whose trim pair is exactly [s, e],
\* whatever trim the receiver carried: re-trimming overwrites.
C9_SubclipOverwrites ==
  [][(ret'.op = "Foreground.subclip" /\ Len(fgs') > Len(fgs)) =>
       /\ SubSeq(fgs', 1, Len(fgs)) = fgs
       /\ ret'.val = << Len(fgs) + 1 >>
       /\ fgs'[ret'.val[1]].sourceTrim = Some(ret'.args)
       /\ \A k \in {"format", "primaryPath", "maskPath", "audioPath"} :
            fgs'[ret'.val[1]][k] = fgs[ret'.recv[1]][k]]_vars

\* a.subclip(1, 10).subclip(2, 5) has just returned
C9_Witness ==
  /\ ret.op = "Foreground.subclip"
  /\ fgs[ret.recv[1]].sourceTrim = Some(<< Sec(1), Some(Sec(10)) >>)
  /\ ret.args = << Sec(2), Some(Sec(5)) >>
  /\ fgs[ret.val[1]].sourceTrim = Some(<< Sec(2), Some(Sec(5)) >>)

\* ---------------------------------------------------- LayerHandle (C10)
\* Every handle method, called on the handles of up to three layers
NextHandle ==
  \/ New({Some(ColorBg)})
  \/ Add({WebmFg})
  \/ AddNamed({MovFg}, Names)
  \/ At({"top-left"}, {25})
  \/ Xy(RawExprs)
  \/ Size({<<"scale", None, None, None, Some(2)>>})
  \/ Opacity({50})
  \/ Rotate({90})
  \/ Crop(Crops)
  \/ Start({Sec(5)})
  \/ End(Ends)
  \/ Duration(Durations)
  \/ Subclip({<< Sec(1), None >>})
  \/ Audio({<<FALSE, 50>>})
  \/ Z({-1})
  \/ Alpha({FALSE})

SpecHandle == Init /\ [][NextHandle]_vars

LayerFields == DOMAIN NewLayer(WebmFg, None, 0)

\* The fields each handle method is said to write
FieldGroup(op) ==
  CASE op = "at" -> {"anchor", "dx", "dy"}
    [] op = "xy" -> {"x_expr", "y_expr"}
    [] op = "size" -> {"size"}
    [] op = "opacity" -> {"opacity"}
    [] op = "rotate" -> {"rotate"}
    [] op = "crop" -> {"crop"}
    [] op = "start" -> {"comp_start"}
    [] op = "end" -> {"comp_end"}
    [] op = "duration" -> {"comp_duration"}
    [] op = "subclip" -> {"source_trim"}
    [] op = "audio" -> {"audio_enabled", "audio_volume"}
    [] op = "z" -> {"z"}
    [] op = "alpha" -> {"alpha_enabled"}

HandleOps ==
  {"at", "xy", "size", "opacity", "rotate", "crop", "start", "end", "duration",
   "subclip", "audio", "z", "alpha"}

\* C10: a handle method changes nothing but its own field group of the layer
\* its handle was returned for: the layer's other fields, every other layer,
\* the number of layers, the compositions, the backgrounds and the handles
\* stay as they were, and the value returned is the handle itself.
C10_HandleFrame ==
  [][(ret'.op \in HandleOps /\ calls' # calls) =>
       LET h == ret'.recv[1]
           id == LayerIdOf(h)
       IN /\ ret'.val = << h >>
          /\ Len(layers') = Len(layers)
          /\ \A j \in 1..Len(layers) : j # id => layers'[j] = layers[j]
          /\ \A k \in LayerFields \ FieldGroup(ret'.op) : layers'[id][k] = layers[id][k]
          /\ UNCHANGED <<bgs, fgs, comps, handles>>]_vars

\* audio(false, 0.5) has just returned on the first of two layers' handles
C10_Witness ==
  /\ ret.op = "audio"
  /\ ret.recv = << 1 >>
  /\ Len(layers) = 2
  /\ ~LayerOf(1).audio_enabled
  /\ LayerOf(1).audio_volume = 50
  /\ layers[2].audio_enabled

\* ------------------------------------------- opacity and volume (C11)
\* opacity() and audio() called with numbers inside, below and above [0, 1],
\* and with NaN
NextClamp ==
  \/ New({Some(ColorBg)})
  \/ Add({WebmFg})
  \/ Opacity(Alphas \cup {NaN})
  \/ Audio(BOOLEAN \X (Volumes \cup {NaN}))

SpecClamp == Init /\ [][NextClamp]_vars

\* C11: after any add and handle calls with any numeric arguments, every
\* layer's opacity and audio volume lie in [0, 1].
C11_OpacityAndVolumeInUnit ==
  \A i \in 1..Len(layers) :
    /\ layers[i].opacity \in 0..100
    /\ layers[i].audio_volume \in 0..100

\* ------------------------------------- setCanvas and setDuration (C12)
\* The caller holds one composition that came from new Composition(bg),
\* new Composition(bg).setCanvas(640, 360, 30) or
\* new Composition(bg).setDuration(7), adds layers, copies it once with
\* setCanvas or setDuration, and goes on adding to and changing both.
InitCopy ==
  /\ bgs = BgAssets
  /\ fgs = FgAssets
  /\ layers = <<>>
  /\ comps \in {<< [NewCompositionRec(bg) EXCEPT !.canvasHint = o[1], !.explicitDuration = o[2]] >> :
                  bg \in {None, Some(ColorBg)},
                  o \in {<<None, None>>, <<Some(<<640, 360, 30>>), None>>, <<None, Some(Sec(7))>>}}
  /\ handles = <<>>
  /\ ret = [op |-> "init", recv |-> <<>>, val |-> <<>>]
  /\ calls = 0
  /\ runs = 0
  /\ spawned = 0
  /\ progress = <<>>
  /\ proc = Idle
  /\ now = 0
  /\ waits = 0
  /\ wt = NoWait
  /\ imp = NoImport
  /\ disk = {}
  /\ tempFiles = {}
  /\ temps = 0

NextCopy ==
  \/ SetCanvas(CanvasArgs)
  \/ SetDuration(ExplicitDurations)
  \/ Add({WebmFg, MovFg})
  \/ Opacity({50})
  \/ Z({-1})

SpecCopy == InitCopy /\ [][NextCopy]_vars

\* C12: setCanvas and setDuration leave the receiver (and every other
\* composition and every layer) as it was and return a new composition with
\* the receiver's background, its other override, and a layer list holding
\* the same layer records in the same order; add on one composition leaves
\* every other composition's list as it was and the new record out of it; a
\* handle call on a record that two lists hold changes what both show.
C12_CopiesShareLayers ==
  [][/\ (ret'.op \in {"setCanvas", "setDuration"} /\ Len(comps') > Len(comps)) =>
          LET old == comps[ret'.recv[1]]
              new == comps'[ret'.val[1]]
          IN /\ SubSeq(comps', 1, Len(comps)) = comps
             /\ layers' = layers
             /\ ret'.val = << Len(comps) + 1 >>
             /\ new.background = old.background
             /\ new.layers = old.layers
             /\ (ret'.op = "setCanvas" => new.explicitDuration = old.explicitDuration)
             /\ (ret'.op = "setDuration" => new.canvasHint = old.canvasHint)
     /\ (ret'.op = "add" /\ calls' # calls) =>
          LET c == ret'.recv[1] IN
          /\ comps'[c].layers = Append(comps[c].layers, Len(layers'))
          /\ Len(layers') = Len(layers) + 1
          /\ \A d \in CompIds \ {c} :
               /\ comps'[d] = comps[d]
               /\ \A k \in 1..Len(comps[d].layers) : comps'[d].layers[k] # Len(layers')
     /\ (ret'.op \in HandleOps /\ calls' # calls) =>
          LET id == LayerIdOf(ret'.recv[1]) IN
          \A d \in CompIds : \A k \in 1..Len(comps[d].layers) :
            layers'[comps'[d].layers[k]] # layers[comps[d].layers[k]]
              => comps[d].layers[k] = id]_vars

\* A composition with an explicit duration was copied by setCanvas after its
\* first layer was added; the copy keeps the duration; each of the two then
\* got a layer of its own, and the shared first layer was changed through the
\* handle that the receiver's add returned
C12_Witness ==
  /\ Len(comps) = 2
  /\ IsSome(comps[1].explicitDuration)
  /\ comps[1].canvasHint = None
  /\ comps[2].explicitDuration = comps[1].explicitDuration
  /\ IsSome(comps[2].canvasHint)
  /\ Len(comps[1].layers) = 2 /\ Len(comps[2].layers) = 2
  /\ comps[1].layers[1] = comps[2].layers[1]
  /\ comps[1].layers[2] # comps[2].layers[2]
  /\ ret.op = "opacity" /\ handles[ret.recv[1]] = <<1, 0>>
  /\ LayersOf(comps[2])[1].opacity = 50

\* --------------------------------------------- soft and binary masks (C13)
\* RGB+mask foregrounds built by the factory with and without the matte
\* flag, composed with alpha on or off
NextMatte ==
  \/ FromVideoAndMask(BundleArgs)
  \/ New({Some(ColorBg)})
  \/ Add(FgIds \ {WebmFg, MovFg, BundleFg, BundleAudioFg, StackedFg, PngFg})
  \/ Alpha(BOOLEAN)
  \/ DryRun

SpecMatte == Init /\ [][NextMatte]_vars

\* The matte flag that the factory call for this foreground's files was given
MatteArg(fg) == \E a \in BundleArgs : a[1] = fg.primaryPath /\ a[4]

\* The statements of G that produce a label of layer i (from 0)
StatementsOfLayer(G, i) ==
  {k \in 1..Len(G) : G[k].outs[1][1] = "layer" /\ G[k].outs[1][2] = i}

\* C13: for an RGB+mask layer with alpha enabled the graph holds an
\* alphamerge statement; it holds the statement
\* geq='if(gte(lum(X,Y),128),255,0)' when the foreground was built with the
\* matte flag false, and no geq statement when it was built with the flag true.
C13_MatteSelectsThreshold ==
  Compiled =>
    LET G == GraphOf(CompiledArgv)
        ls == CompiledLayers
    IN \A i \in 0..(Len(ls) - 1) :
         LET fg == fgs[ls[i + 1].fg]
             own == StatementsOfLayer(G, i)
         IN (fg.format = "pro_bundle" /\ ls[i + 1].alpha_enabled) =>
              /\ \E k \in own : G[k].f = "alphamerge"
              /\ MatteArg(fg) => ~\E k \in own : G[k].f = "geq"
              /\ ~MatteArg(fg) =>
                   \E k \in own : G[k].f = "geq" /\ G[k].p = <<"if(gte(lum(X,Y),128),255,0)">>

\* ----------------------------------- what subclip carries over (C14)
\* Foregrounds built by the factories, with and without the matte flag, and
\* their subclips
NextClip ==
  \/ FromVideoAndMask(BundleArgs)
  \/ FgSubclip(FgIds, Trims)

SpecClip == Init /\ [][NextClip]_vars

\* C14: the Foreground that subclip returns equals the receiver in format,
\* primary, mask and audio locators and in the matte flag, which for an
\* RGB+mask foreground is the flag it was built with; nothing but the trim
\* pair differs.
C14_SubclipKeepsAllButTrim ==
  ret.op = "Foreground.subclip" =>
    LET old == fgs[ret.recv[1]]
        new == fgs[ret.val[1]]
    IN /\ \A k \in {"format", "primaryPath", "maskPath", "audioPath"} : new[k] = old[k]
       /\ Foreground_matte(new) = Foreground_matte(old)
       /\ old.format = "pro_bundle" => Foreground_matte(new) = Some(MatteArg(old))
       /\ new = [old EXCEPT !.sourceTrim = new.sourceTrim]

\* ------------------------------------------------ how toFile ends (C15)
\* An export of a one-layer composition, quiet or verbose, whose tool writes
\* to its error stream, exits with 0 or 1, or cannot be started
NextRun ==
  \/ New({Some(ColorBg)})
  \/ Add({WebmFg})
  \/ ToFile({h264, transparentWebm})
  \/ Stderr(Chunks)
  \/ Close
  \/ Error

SpecRun == Init /\ [][NextRun]_vars

\* The promise is resolved iff the tool exited with 0; after a nonzero exit
\* of a tool that started it is rejected with the exit code and the text
\* carried; after a spawn failure it is rejected with the 'execution failed'
\* error; a call spawns at most one process; once the process has closed the
\* promise is settled
RunOutcome(carried) ==
  /\ spawned \in {0, 1}
  /\ (proc.promise[1] = "resolved") <=> (proc.exit = Some(0))
  /\ (IsSome(proc.exit) /\ proc.exit # Some(0) /\ ~proc.spawnError) =>
       proc.promise = <<"rejected", "FFmpeg failed with code", Get(proc.exit), carried>>
  /\ proc.spawnError => proc.promise = <<"rejected", "FFmpeg execution failed">>
  /\ proc.state = "closed" => proc.promise[1] \in {"resolved", "rejected"}

\* C15 as stated: the rejection after a nonzero exit carries the text of the
\* tool's error stream, in quiet and in verbose mode alike.
C15_RejectCarriesErrorStream == RunOutcome(proc.emitted)

\* What _run has to carry: the collected text in quiet mode, nothing in
\* verbose mode, where the tool writes to the caller's terminal
Collected == IF proc.verbose THEN <<>> ELSE proc.emitted

\* C15: toFile resolves iff the tool exits with 0; a nonzero exit rejects
\* with the exit code and, in quiet mode, the text of the tool's error stream
\* (in verbose mode with the exit code alone); a spawn failure rejects with
\* the 'execution failed' error; at most one process is spawned per call, and
\* a settled promise never changes.
C15_RunOutcome ==
  [][/\ RunOutcome(Collected)'
     /\ (proc.promise[1] \in {"resolved", "rejected"} /\ runs' = runs) =>
          proc'.promise = proc.promise]_vars

\* A verbose export whose tool wrote two pieces of text and exited with 1:
\* the rejection carries the code and no text
C15_Witness ==
  /\ proc.verbose
  /\ Len(proc.emitted) = 2
  /\ proc.exit = Some(1)
  /\ ~proc.spawnError
  /\ proc.promise = <<"rejected", "FFmpeg failed with code", 1, <<>>>>

\* ------------------------------------------- waiting for a job (C17, C18)
\* wait(jobId) with the default or a 1 s poll interval and no timeout, each
\* status request answered with any job state or failing
NextWait ==
  \/ Wait(JobIds, PollIntervals, {None})
  \/ Polled(Responses, Latencies)
  \/ PollFails(HttpFailures, Latencies)
  \/ Slept(Lates)

SpecWait == Init /\ [][NextWait]_vars

Terminal == {"completed", "failed"}
LastPolled == wt.polled[Len(wt.polled)]

\* After each answered status request: completed returns that status, failed
\* rejects with ProcessingError and the job's message, any other state leaves
\* the call sleeping or, the sleep over, polling
WaitOutcome ==
  /\ wt.state = "returned" =>
       /\ IsSome(wt.result) /\ Get(wt.result).status = "completed"
       /\ LastPolled.status = "completed"
  /\ wt.polled # <<>> =>
       /\ LastPolled.status = "completed" => wt.state = "returned"
       /\ LastPolled.status = "failed" =>
            /\ wt.state = "rejected"
            /\ wt.error = Some(ErrorOf("ProcessingError",
                                 IF IsSome(LastPolled.message)
                                 THEN <<Get(LastPolled.message)>>
                                 ELSE <<"Job processing failed">>, Some(wt.jobId)))
       /\ LastPolled.status \in JobStates \ Terminal => wt.state \in {"sleeping", "polling"}
       /\ \A i \in 1..(Len(wt.polled) - 1) : wt.polled[i].status \in JobStates \ Terminal

\* C17: wait(jobId) returns only a completed status; a poll answered 'failed'
\* rejects at once with ProcessingError carrying the job's message; after any
\* other state it sleeps at least the poll interval and then polls again; no
\* status request follows a terminal answer, and a settled call stays as it is.
C17_WaitReturnsOnlyCompleted ==
  [][/\ WaitOutcome'
     /\ wt.state = "sleeping" =>
          /\ wt'.state = "polling" /\ wt'.polled = wt.polled
          /\ now' - now >= wt.pollSeconds
     /\ (wt.state = "polling" /\ wt.polled # <<>>) =>
          /\ Len(wt'.polled) = Len(wt.polled) + 1
          /\ LastPolled.status \notin Terminal
     /\ (wt.state \in {"returned", "rejected"} /\ waits' = waits) => wt' = wt]_vars

\* A job seen processing, then failed with a message
C17_Witness ==
  /\ Len(wt.polled) = 2
  /\ wt.polled[1].status = "processing"
  /\ wt.polled[2].status = "failed"
  /\ wt.state = "rejected"
  /\ wt.error = Some(ErrorOf("ProcessingError", <<"Processing failed">>, Some("job_123")))

\* wait(jobId, {timeout: t}) with t of 1 s or 2 s on a job that never ends:
\* every status request is answered, with a state that is not terminal, and
\* every timer fires
NextTimeout ==
  \/ Wait(JobIds, PollIntervals, {Some(Sec(1)), Some(Sec(2))})
  \/ Polled(Pending, Latencies)
  \/ Slept(Lates)

SpecTimeout ==
  /\ Init /\ [][NextTimeout]_vars
  /\ WF_vars(Polled(Pending, Latencies)) /\ WF_vars(Slept(Lates))

TimeoutError ==
  ErrorOf("Error", <<"Job ", wt.jobId, " did not complete within ", Get(wt.timeout), " seconds">>,
          None)
Late(i) == wt.polled[i].at - wt.startTime > Get(wt.timeout)

\* C18: a wait with timeout t > 0 on a job whose every poll is not terminal
\* eventually rejects with 'Job <id> did not complete within <t> seconds',
\* and does so at the first poll answered more than t after the call started:
\* no earlier answer was late, a late answer rejects, and nothing else does.
C18_TimesOutAtFirstLatePoll ==
  /\ [](wt.state # "idle" =>
          /\ \A i \in 1..(Len(wt.polled) - 1) : ~Late(i)
          /\ (wt.polled # <<>> /\ Late(Len(wt.polled))) =>
               wt.state = "rejected" /\ wt.error = Some(TimeoutError)
          /\ wt.state = "rejected" => wt.polled # <<>> /\ Late(Len(wt.polled)))
  /\ (wt.state = "polling" ~> (wt.state = "rejected" /\ wt.error = Some(TimeoutError)))

\* A 2 s timeout with the poll answered at exactly 2 s and sleeping on, and
\* the rejection at the next answer
C18_Witness ==
  /\ wt.state = "rejected"
  /\ wt.timeout = Some(Sec(2))
  /\ wt.error = Some(TimeoutError)
  /\ \E i \in 1..(Len(wt.polled) - 1) : wt.polled[i].at - wt.startTime = Sec(2)

\* ------------------------------------------------ removeBackground (C16)
\* removeBackground of a local file or a URL, usable or not, every request
\* answering or failing, the job ending in any state
NextImport ==
  \/ RemoveBackground(Videos, {Sec(1)})
  \/ HeadAnswers
  \/ JobCreated(JobIds)
  \/ Uploaded
  \/ Started
  \/ RequestFails(HttpFailures)
  \/ Polled(Responses, {0})
  \/ PollFails(HttpFailures, {0})
  \/ Slept({0})
  \/ Waited
  \/ Downloaded(Archives)

SpecImport == Init /\ [][NextImport]_vars

\* The place of each operation in the order create, upload, start, wait,
\* download; the check of the URL comes first
Rank(op) ==
  CASE op = "head" -> 0
    [] op \in {"createJobUrl", "createJobFile"} -> 1
    [] op = "upload" -> 2
    [] op = "startJob" -> 3
    [] op = "wait" -> 4
    [] op = "download" -> 5
Begun(op) == \E i \in 1..Len(imp.trace) : imp.trace[i] = op
UsablePublicUrl == imp.video.kind = "url" /\ imp.publicUrlOk = Some(TRUE)

\* C16: removeBackground begins create-job, upload (exactly when the video is
\* not a usable public URL), start-job, wait and download in that order, each
\* only after the one before; it resolves, with one new Foreground, only when
\* wait returned a completed status carrying processed_video_url; in every
\* other case no Foreground is produced, and a job that failed, a wait that
\* rejected or a status without URL ends in a rejection.
C16_ImportOrderAndOutcome ==
  /\ \A i, j \in 1..Len(imp.trace) : i < j => Rank(imp.trace[i]) < Rank(imp.trace[j])
  /\ Begun("download") => Begun("wait")
  /\ Begun("wait") => Begun("startJob")
  /\ Begun("startJob") => (Begun("upload") <=> ~UsablePublicUrl)
  /\ Begun("startJob") => Begun("createJobUrl") \/ Begun("createJobFile")
  /\ Begun("upload") => Begun("createJobFile")
  /\ Begun("createJobUrl") <=> UsablePublicUrl
  /\ imp.pc \in {"download", "resolved"} \/ Begun("download") =>
       /\ wt.state = "returned"
       /\ Get(wt.result).status = "completed"
       /\ IsSome(Get(wt.result).processed_video_url)
  /\ imp.pc = "resolved" =>
       /\ Begun("download")
       /\ imp.value = Some(Len(fgs)) /\ Len(fgs) = imp.fgsBefore + 1
  /\ imp.pc \notin {"idle", "resolved"} => Len(fgs) = imp.fgsBefore /\ imp.value = None
  /\ (Begun("wait") /\ imp.pc # "wait" /\ ~Begun("download")) =>
       /\ imp.pc = "rejected"
       /\ wt.state = "rejected" \/ ~IsSome(Get(wt.result).processed_video_url)

\* An uploaded file whose job completed with a result URL: all five
\* operations in order, and the Foreground
C16_Witness ==
  /\ imp.trace = <<"createJobFile", "upload", "startJob", "wait", "download">>
  /\ imp.pc = "resolved"
  /\ Len(wt.polled) >= 2
  /\ fgs[Get(imp.value)].format = "webm_vp9"

\* ------------------------------------------------------ temp files (C19)
\* Image backgrounds from a local file and from URLs, an import of a local
\* video whose job completes with a WebM or an archive, and cleanup
NextTemp ==
  \/ FromImage(ImageSources, {"ok"})
  \/ RemoveBackground({v \in Videos : v.kind = "file"}, {Sec(1)})
  \/ JobCreated(JobIds)
  \/ Uploaded
  \/ Started
  \/ Polled({r \in Responses : IsSome(r.processed_video_url)}, {0})
  \/ Waited
  \/ Downloaded(Archives)
  \/ Cleanup

SpecTemp == Init /\ [][NextTemp]_vars

\* C19: every temp file the library has put on disk (a downloaded background
\* image, a downloaded job result, the members of an extracted archive) is in
\* the MediaContext's registry under the path it has on disk, so that
\* cleanup(), which unlinks the registered paths and empties the registry,
\* leaves none of them.
C19_TempFilesRegistered ==
  /\ disk \subseteq tempFiles
  /\ ret.op = "cleanup" => tempFiles = {}

\* -------------------------------------------------- probe failures (C20)
\* Every factory that probes, on a local video and a local image, with the
\* probing tool ending in every way
NextProbe ==
  \/ FromVideo({"bg.mp4"}, ProbeOutcomes)
  \/ FromImage({"bg.png"}, ProbeOutcomes)
  \/ ForegroundFrom(ForegroundFactories, {"bg.mp4"}, ProbeOutcomes)

SpecProbe == Init /\ [][NextProbe]_vars

ForegroundOps == {"Foreground." \o f : f \in ForegroundFactories}
Placeholder(info, path) ==
  /\ info = Some(_fallbackInfo(path))
  /\ Get(info).codec_name = "unknown"
  /\ getDuration(info) = None

\* C20 as stated: whenever a probe failed in the last factory call, of a
\* Foreground or of a Background, nothing was thrown and the object exists,
\* with placeholder metadata where it carries metadata.
C20_ProbeFailureNeverSurfaces ==
  /\ ret.op \in ForegroundOps \ {"Foreground.fromPngSequence"} /\ ret.args[2] # "ok" =>
       /\ ret.threw = None
       /\ Placeholder(fgs[ret.val[1]]._videoInfo, ret.args[1])
  /\ ret.op = "Background.fromVideo" /\ (ret.args[2] # "ok" \/ ret.args[3] # "ok") =>
       /\ ret.threw = None
       /\ Placeholder(bgs[ret.val[1]].videoSource, ret.args[1])
  /\ ret.op = "Background.fromImage" /\ (IsUrl(ret.args[1]) => ret.args[2])
       /\ ret.args[3] # "ok" =>
       /\ ret.threw = None
       /\ bgs[ret.val[1]].kind = "image"

\* C20: a failure of the metadata probe never surfaces to the caller of a
\* Foreground factory or of Background.fromVideo: the object is constructed,
\* with placeholder metadata (codec 'unknown', no duration). A failure of the
\* dimension probe of Background.fromVideo or Background.fromImage is thrown
\* to the caller, and no Background is constructed.
C20_MetadataProbeRecovered ==
  [][ret' # ret =>
       /\ ret'.op \in ForegroundOps =>
            /\ ret'.threw = None
            /\ fgs' = Append(fgs, fgs'[Len(fgs')]) /\ ret'.val = <<Len(fgs')>>
            /\ (ret'.op # "Foreground.fromPngSequence" /\ ret'.args[2] # "ok") =>
                 Placeholder(fgs'[Len(fgs')]._videoInfo, ret'.args[1])
       /\ ret'.op = "Background.fromVideo" =>
            /\ IsSome(ret'.threw) <=> ret'.args[2] # "ok"
            /\ IsSome(ret'.threw) => bgs' = bgs /\ ret'.val = <<>>
            /\ ~IsSome(ret'.threw) =>
                 /\ bgs' = Append(bgs, bgs'[Len(bgs')]) /\ ret'.val = <<Len(bgs')>>
                 /\ ret'.args[3] # "ok" =>
                      /\ Placeholder(bgs'[Len(bgs')].videoSource, ret'.args[1])
                      /\ Background_getDuration(bgs'[Len(bgs')]) = None
       /\ ret'.op = "Background.fromImage" =>
            /\ IsSome(ret'.threw) <=>
                 (IsUrl(ret'.args[1]) /\ ~ret'.args[2]) \/ ret'.args[3] # "ok"
            /\ IsSome(ret'.threw) => bgs' = bgs /\ ret'.val = <<>>
            /\ ~IsSome(ret'.threw) => bgs' = Append(bgs, bgs'[Len(bgs')])]_vars

\* A video background whose dimension probe answered and whose metadata
\* probe timed out: constructed, with the placeholder
C20_Witness ==
  /\ ret.op = "Background.fromVideo"
  /\ ret.args = <<"bg.mp4", "ok", "timeout">>
  /\ ret.threw = None
  /\ bgs[ret.val[1]].width = 1920
  /\ bgs[ret.val[1]].videoSource = Some(_fallbackInfo("bg.mp4"))

\* ------------------------------------------- end() and duration() (C21)
\* The caller holds two compositions built alike over the same colour
\* background
InitTwins ==
  /\ bgs = BgAssets
  /\ fgs = FgAssets
  /\ layers = <<>>
  /\ comps = << NewCompositionRec(Some(ColorBg)), NewCompositionRec(Some(ColorBg)) >>
  /\ handles = <<>>
  /\ ret = [op |-> "init", recv |-> <<>>, val |-> <<>>]
  /\ calls = 0
  /\ runs = 0
  /\ spawned = 0
  /\ progress = <<>>
  /\ proc = Idle
  /\ now = 0
  /\ waits = 0
  /\ wt = NoWait
  /\ imp = NoImport
  /\ disk = {}
  /\ tempFiles = {}
  /\ temps = 0

\* Layers added to the two, their start, end and duration set, and the
\* compiled command
NextTiming ==
  \/ Add({WebmFg})
  \/ Start({Sec(5)})
  \/ End(Ends)
  \/ Duration(Durations)
  \/ DryRun

SpecTiming == InitTwins /\ [][NextTiming]_vars

\* What dryRun compiles for composition c
CommandOf(c) == _buildFFmpegArgv(comps[c], "OUT.mp4", h264, TRUE)

\* Compositions c and d are the same but for the end or duration of a layer
DifferInEndOrDuration(c, d) ==
  /\ comps[c].background = comps[d].background
  /\ comps[c].canvasHint = comps[d].canvasHint
  /\ comps[c].explicitDuration = comps[d].explicitDuration
  /\ Len(comps[c].layers) = Len(comps[d].layers)
  /\ \A k \in 1..Len(comps[c].layers) :
       [layers[comps[c].layers[k]] EXCEPT !.comp_end = None, !.comp_duration = None]
         = [layers[comps[d].layers[k]] EXCEPT !.comp_end = None, !.comp_duration = None]
  /\ \E k \in 1..Len(comps[c].layers) :
       layers[comps[c].layers[k]] # layers[comps[d].layers[k]]

\* C21: end(e) and duration(d) bound the layer's display: the command compiled
\* for a composition with a layer's end or duration set holds a time bound
\* derived from the value, so it differs from the command compiled for the
\* same composition without the setting.
C21_EndAndDurationBoundTheLayer ==
  \A c \in CompIds : \A d \in CompIds :
    (DifferInEndOrDuration(c, d) /\ CommandOf(c).ok) => CommandOf(c) # CommandOf(d)

\* ------------------------------------- aspect-ratio constraint (C22)
\* One size() argument list per size mode that produces a scale statement
ScaleModes ==
  {<<"px", Some(640), Some(360), None, None>>,
   <<"canvas_percent", None, None, Some(50), None>>,
   <<"contain", None, None, None, None>>,
   <<"cover", None, None, None, None>>,
   <<"fit_width", None, None, None, None>>,
   <<"fit_height", None, None, None, None>>,
   <<"scale", None, None, None, Some(2)>>}

NextScale ==
  \/ New({Some(ColorBg)})
  \/ Add({WebmFg})
  \/ Size(ScaleModes)
  \/ DryRun

SpecScale == Init /\ [][NextScale]_vars

\* The aspect-ratio flags of the scale statements of layer i in graph G
ScaleFlagsOf(G, i) ==
  {G[k].p[2] : k \in {j \in StatementsOfLayer(G, i) :
                        G[j].f = "scale" /\ G[j].outs[1][3] = "scale"}}

\* Every scale statement of a compiled layer carries flag(its size mode)
ScaleFlagsFollow(flag(_)) ==
  Compiled =>
    \A i \in 0..(Len(CompiledLayers) - 1) :
      ScaleFlagsOf(GraphOf(CompiledArgv), i) \subseteq {flag(CompiledLayers[i + 1].size[1])}

\* C22 as stated: the constraint on a layer's scale statement is 'decrease'
\* for px, canvas_percent and contain, 'increase' for cover, and absent for
\* fit_width, fit_height and scale.
C22_FitModesUnflagged ==
  LET stated(m) == CASE m \in {"px", "canvas_percent", "contain"} -> Some("decrease")
                     [] m = "cover" -> Some("increase")
                     [] OTHER -> None
  IN ScaleFlagsFollow(stated)

\* C22: the constraint on a layer's scale statement is a function of the size
\* mode alone: 'decrease' for px, canvas_percent, contain, fit_width and
\* fit_height, 'increase' for cover, and absent for scale.
C22_AspectConstraintByMode ==
  LET coded(m) == CASE m \in {"px", "canvas_percent", "contain",
                              "fit_width", "fit_height"} -> Some("decrease")
                    [] m = "cover" -> Some("increase")
                    [] OTHER -> None
  IN ScaleFlagsFollow(coded)

\* A compiled composition with a layer sized by a fit mode and a layer sized
\* by cover, the scale statement of the first constrained to 'decrease', that
\* of the second to 'increase'
C22_Witness ==
  /\ Compiled
  /\ \E i \in 0..(Len(CompiledLayers) - 1) :
       /\ CompiledLayers[i + 1].size[1] \in {"fit_width", "fit_height"}
       /\ ScaleFlagsOf(GraphOf(CompiledArgv), i) = {Some("decrease")}
  /\ \E i \in 0..(Len(CompiledLayers) - 1) :
       /\ CompiledLayers[i + 1].size[1] = "cover"
       /\ ScaleFlagsOf(GraphOf(CompiledArgv), i) = {Some("increase")}

\* ------------------------------------------------ shape of a dry run (C23)
NextDry ==
  \/ New({None, Some(ColorBg), Some(SilentVideoBg)})
  \/ SetCanvas(CanvasArgs)
  \/ Add({WebmFg, MovFg, BundleFg})
  \/ Xy(RawExprs)
  \/ DryRun

SpecDry == Init /\ [][NextDry]_vars

\* The text of a label, as every template of the compiler writes it: `[...]`
LabelText(l) == << <<"[">>, <<"label", l>>, <<"]">> >>

RECURSIVE LabelsText(_)
LabelsText(ls) == IF ls = <<>> THEN <<>> ELSE LabelText(Head(ls)) \o LabelsText(Tail(ls))

\* One statement: its input labels, the filter with its parameters, its
\* output labels
StmtText(st) == LabelsText(st.ins) \o << <<"filter", st.f, st.p>> >> \o LabelsText(st.outs)

\* allFilterParts.join(';')
RECURSIVE FilterText(_)
FilterText(G) ==
  IF G = <<>> THEN <<>>
  ELSE StmtText(Head(G)) \o (IF Len(G) > 1 THEN << <<";">> >> ELSE <<>>) \o FilterText(Tail(G))

CountOf(text, tok) == Cardinality({k \in 1..Len(text) : text[k] = tok})

\* The dry run of a composition with a layer and a resolvable canvas gives a
\* command that begins with the tool's name and holds one -filter_complex
\* whose value has as many '[' as ']'
DryRunShape ==
  (/\ ret.op = "dryRun"
   /\ Len(CompiledComp.layers) >= 1
   /\ _getCanvasSize(CompiledComp).ok)
  => /\ ret.val[1].ok
     /\ CompiledArgv[1] = S("ffmpeg")
     /\ Cardinality({k \in 1..Len(CompiledArgv) : CompiledArgv[k] = S("-filter_complex")}) = 1
     /\ Cardinality({k \in 1..Len(CompiledArgv) : CompiledArgv[k][1] = "fc"}) = 1
     /\ CountOf(FilterText(GraphOf(CompiledArgv)), <<"[">>)
          = CountOf(FilterText(GraphOf(CompiledArgv)), <<"]">>)
     /\ CountOf(FilterText(GraphOf(CompiledArgv)), <<"[">>) > 0

MapPositions(argv) == {k \in 1..Len(argv) : argv[k] = S("-map")}

\* The positions of a -t that follows every stream map: the output's duration
\* limit (a -t before an -i trims that input)
GlobalDurationAt(argv) ==
  {k \in 1..(Len(argv) - 1) :
     /\ argv[k] = S("-t")
     /\ MapPositions(argv) # {}
     /\ \A m \in MapPositions(argv) : m < k}

\* C24: a compiled argv holds the duration flag -t d exactly when duration
\* resolution yields d (so after setDuration(d) for every d >= 0), after the
\* stream maps and right before the encoder arguments, which end in the
\* output path; when nothing resolves there is no such flag.
C24_DurationFlagWhenResolved ==
  Compiled =>
    LET argv == CompiledArgv
        d == _getCompositionDuration(CompiledComp)
        enc == EncoderArgs(h264, "OUT.mp4")
    IN /\ argv[Len(argv)] = enc[Len(enc)]
       /\ SubSeq(argv, Len(argv) - Len(enc) + 1, Len(argv)) = enc
       /\ IF IsSome(d)
          THEN /\ GlobalDurationAt(argv) = {Len(argv) - Len(enc) - 1}
               /\ argv[Len(argv) - Len(enc)] = N(Get(d))
          ELSE GlobalDurationAt(argv) = {}

\* ------------------------------------------ the transformation chain (C25)
\* Layers of a plain and of an RGB+mask foreground, each transformation set
\* or left alone (a start of 0 included), drawn in another order than added
NextChain ==
  \/ New({Some(ColorBg)})
  \/ Add({WebmFg, BundleFg})
  \/ Start({0, Sec(5)})
  \/ Crop(Crops)
  \/ Size({<<"px", None, None, None, None>>})
  \/ Rotate({90})
  \/ Opacity({50})
  \/ Z({-1})
  \/ DryRun

SpecChain == Init /\ [][NextChain]_vars

\* The place of each transformation in the fixed order; the closing
\* statement that gives the chain its final label comes last
ChainRank(suffix) ==
  CASE suffix = "timed" -> 1 [] suffix = "crop" -> 2 [] suffix = "scale" -> 3
    [] suffix = "rotate" -> 4 [] suffix = "opacity" -> 5 [] suffix = "final" -> 6
    [] OTHER -> 0

ChainFilter(suffix) ==
  CASE suffix = "timed" -> "setpts" [] suffix = "crop" -> "crop" [] suffix = "scale" -> "scale"
    [] suffix = "rotate" -> "rotate" [] suffix = "opacity" -> "colorchannelmixer"
    [] OTHER -> "null"

\* The positions in G of the transformation chain of layer i, and of the
\* statements that normalise its format
ChainOf(G, i) == {k \in StatementsOfLayer(G, i) : ChainRank(G[k].outs[1][3]) > 0}
FormatOf(G, i) == StatementsOfLayer(G, i) \ ChainOf(G, i)

\* The stream the chain of layer i starts from: the output of the last format
\* statement, or the layer's raw video input
ChainSource(G, ls, i) ==
  IF FormatOf(G, i) # {}
  THEN G[CHOOSE k \in FormatOf(G, i) : \A j \in FormatOf(G, i) : j <= k].outs[1]
  ELSE InRef(FirstInput(ls, i), "v")

\* The stream the overlay of layer i draws
OverlaySourceOf(G, ls, i) ==
  LET ov == OverlaysOf(G)
  IN ov[CHOOSE n \in 1..Len(ov) : OverlaidLayer(ov[n], ls) = i].ins[2]

\* The chain of layer i (add index from 0, state l) in graph G
ChainAsStated(G, ls, i, l) ==
  LET K == ChainOf(G, i)
      has(suffix) == \E k \in K : G[k].outs[1][3] = suffix
      before(k) == {j \in K : j < k}
  IN /\ \A k \in K : /\ G[k].f = ChainFilter(G[k].outs[1][3])
                     /\ Len(G[k].ins) = 1
                     /\ \A j \in before(k) :
                          ChainRank(G[j].outs[1][3]) < ChainRank(G[k].outs[1][3])
                     /\ G[k].ins[1] =
                          IF before(k) = {} THEN ChainSource(G, ls, i)
                          ELSE G[CHOOSE j \in before(k) : \A m \in before(k) : m <= j].outs[1]
     /\ has("timed") <=> (IsSome(l.comp_start) /\ Get(l.comp_start) > 0)
     /\ has("crop") <=> IsSome(l.crop)
     /\ has("rotate") <=> l.rotate # 0
     /\ has("opacity") <=> l.opacity # 100
     /\ has("final") <=> K # {}
     /\ OverlaySourceOf(G, ls, i) =
          IF K # {} THEN LayerLabel(i, "final") ELSE ChainSource(G, ls, i)

\* C25: for every layer the transformation statements are, in this order, a
\* subsequence of timeline shift, crop, scale, rotate, opacity; the shift is
\* there iff the layer's start is > 0, crop iff a crop is set, rotate iff the
\* rotation is not 0, opacity iff the opacity is not 1; each consumes the
\* output of the one before (the first the normalisation output or the raw
\* input); a non-empty chain ends in layer_<add index>_final, which is what
\* the layer's overlay consumes.
C25_TransformationChain ==
  Compiled =>
    \A i \in 0..(Len(CompiledLayers) - 1) :
      ChainAsStated(GraphOf(CompiledArgv), CompiledLayers, i, CompiledLayers[i + 1])

\* A compiled composition with an RGB+mask layer that is scaled and rotated
\* after its normalisation, next to a layer started at 0
C25_Witness ==
  /\ Compiled
  /\ \E i \in 0..(Len(CompiledLayers) - 1) :
       /\ Cardinality(ChainOf(GraphOf(CompiledArgv), i)) >= 3
       /\ CompiledLayers[i + 1].rotate # 0
       /\ FormatOf(GraphOf(CompiledArgv), i) # {}
  /\ \E i \in 0..(Len(CompiledLayers) - 1) :
       /\ CompiledLayers[i + 1].comp_start = Some(0)
       /\ ChainOf(GraphOf(CompiledArgv), i) # {}

\* ------------------------------------------------ overlay position (C26)
\* Layers placed at each anchor with each offset or by a raw expression
\* pair, sized to the canvas or to a percentage box, and compiled
NextPlace ==
  \/ New({Some(ColorBg)})
  \/ Add({WebmFg})
  \/ At(Anchors, Offsets)
  \/ Xy(RawExprs)
  \/ Size({<<"canvas_percent", None, None, Some(50), None>>,
           <<"canvas_percent", Some(33), None, None, None>>})
  \/ DryRun

SpecPlace == Init /\ [][NextPlace]_vars

\* Rendered sizes of an overlay for which the expressions are evaluated
RenderedSizes == {0, 320, 640, 1000}

\* Twice the value the media tool gives the expression of one axis on a
\* canvas of size C for an overlay rendered at size r:
\*   BASE[+off] or (BASE[+off])+(T-w)[/2], BASE one of 0, (W-b)/2, W-b with
\*   b written as w or as the number T
TwiceAxisValue(e, C, r) ==
  LET b == IF IsSome(e.box) THEN Get(e.box) ELSE r
      base == CASE e.base = "near" -> 0 [] e.base = "center" -> C - b [] OTHER -> 2 * (C - b)
      inner == CASE e.inner = "near" -> 0
                 [] e.inner = "center" -> Get(e.box) - r
                 [] OTHER -> 2 * (Get(e.box) - r)
  IN base + (IF e.offShown THEN 2 * e.off ELSE 0) + inner

\* The position parameter of the overlay statement of layer i
PositionOf(G, ls, i) ==
  LET ov == OverlaysOf(G)
  IN ov[CHOOSE n \in 1..Len(ov) : OverlaidLayer(ov[n], ls) = i].p[1]

\* Twice base + offset as the claim has it: alignment near, center or far,
\* canvas C, offset off, box the target box of percent mode or <<>>, overlay
\* rendered at r
TwiceStated(alignment, C, off, box, r) ==
  LET b == IF IsSome(box) THEN Get(box) ELSE r
      k == CASE alignment = "near" -> 0 [] alignment = "center" -> 1 [] OTHER -> 2
  IN k * (C - b) + 2 * off + (IF IsSome(box) THEN k * (Get(box) - r) ELSE 0)

\* floor(canvas * pct / 100) per axis of a percent size
StatedBox(size, C, axis) ==
  IF size[1] # "canvas_percent" THEN None
  ELSE LET pct == IF IsSome(size[axis + 1]) THEN Get(size[axis + 1])
                  ELSE IF IsSome(size[4]) /\ ~IsSome(size[2]) /\ ~IsSome(size[3])
                       THEN Get(size[4])
                  ELSE 100
       IN Some((C * pct) \div 100)

\* C26: for each of the nine anchors and any integer offset the overlay
\* position evaluates to base + offset per axis, base 0, (C - b)/2 or C - b by
\* alignment, b the overlay's rendered size or, in percent mode, the target
\* box floor(canvas * pct / 100), inside which the content is shifted by 0,
\* (box - rendered)/2 or box - rendered; a raw pair set by xy() replaces the
\* anchor expression.
C26_AnchorAlgebra ==
  Compiled =>
    \A i \in 0..(Len(CompiledLayers) - 1) :
      LET l == CompiledLayers[i + 1]
          pos == PositionOf(GraphOf(CompiledArgv), CompiledLayers, i)
          canvas == _getCanvasSize(CompiledComp).size
          col == CASE l.anchor \in {"top-left", "center-left", "bottom-left"} -> "near"
                   [] l.anchor \in {"top-center", "center", "bottom-center"} -> "center"
                   [] OTHER -> "far"
          row == CASE l.anchor \in {"top-left", "top-center", "top-right"} -> "near"
                   [] l.anchor \in {"center-left", "center", "center-right"} -> "center"
                   [] OTHER -> "far"
      IN IF IsSome(l.x_expr)
         THEN pos = [kind |-> "raw", x |-> l.x_expr, y |-> l.y_expr]
         ELSE /\ pos.kind = "anchor"
              /\ \A r \in RenderedSizes :
                   /\ TwiceAxisValue(Get(pos.x), canvas[1], r)
                        = TwiceStated(col, canvas[1], l.dx, StatedBox(l.size, canvas[1], 1), r)
                   /\ TwiceAxisValue(Get(pos.y), canvas[2], r)
                        = TwiceStated(row, canvas[2], l.dy, StatedBox(l.size, canvas[2], 2), r)

\* A compiled composition with a layer at the bottom right of a percentage
\* box with a negative offset
C26_Witness ==
  /\ Compiled
  /\ \E i \in 1..Len(CompiledLayers) :
       /\ CompiledLayers[i].anchor = "bottom-right"
       /\ CompiledLayers[i].dx < 0
       /\ CompiledLayers[i].size[1] = "canvas_percent"
       /\ ~IsSome(CompiledLayers[i].x_expr)
       /\ PositionOf(GraphOf(CompiledArgv), CompiledLayers, i - 1).kind = "anchor"

\* ---------------------------------------------------- background() (C27)
\* The caller holds a composition with or without a canvas or duration
\* override, adds layers to it, calls background(bg) on it once and goes on
\* adding to both
NextBackdrop ==
  \/ Add({WebmFg})
  \/ WithBackground({ImageBg, VideoBg})
  \/ DryRun

SpecBackdrop == InitCopy /\ [][NextBackdrop]_vars

\* C27: background(bg) leaves the receiver (every composition, layer and
\* handle) as it was and returns a new composition that has bg as its
\* background and no layers, no canvas override and no explicit duration,
\* whatever the receiver holds.
C27_BackgroundStartsAfresh ==
  [][(ret'.op = "background" /\ Len(comps') > Len(comps)) =>
       /\ SubSeq(comps', 1, Len(comps)) = comps
       /\ Len(comps') = Len(comps) + 1
       /\ layers' = layers /\ handles' = handles /\ bgs' = bgs /\ fgs' = fgs
       /\ ret'.val = << Len(comps) + 1 >>
       /\ comps'[Len(comps')].background = Some(ret'.args[1])
       /\ comps'[Len(comps')].layers = <<>>
       /\ comps'[Len(comps')].canvasHint = None
       /\ comps'[Len(comps')].explicitDuration = None]_vars

\* background() has just been called on a composition that holds layers and
\* an override
C27_Witness ==
  /\ ret.op = "background"
  /\ Len(comps[ret.recv[1]].layers) >= 2
  /\ \/ IsSome(comps[ret.recv[1]].canvasHint)
     \/ IsSome(comps[ret.recv[1]].explicitDuration)
  /\ comps[ret.val[1]].layers = <<>>
  /\ comps[ret.val[1]].background # comps[ret.recv[1]].background

\* ------------------------------------------- the two subclips (C28)
\* Layers of a plain and of a trimmed foreground added to two compositions
\* built alike, some trimmed again through their handles, and compiled
NextTrim ==
  \/ FgSubclip({WebmFg}, {<<Sec(1), Some(Sec(10))>>})
  \/ Add({f \in FgIds : fgs[f].primaryPath = "fg.webm"})
  \/ Subclip({<<Sec(2), Some(Sec(5))>>, <<Sec(2), None>>})
  \/ DryRun

SpecTrim == InitTwins /\ [][NextTrim]_vars

\* The position in argv of the -i of input n (from 0)
InputPosition(argv, n) ==
  CHOOSE k \in 1..Len(argv) :
    /\ argv[k] = S("-i")
    /\ Cardinality({j \in 1..(k - 1) : argv[j] = S("-i")}) = n

\* The source-trim flags that stand right before position p: -ss s -t d,
\* -ss s, or none
TrimBefore(argv, p) ==
  IF p > 4 /\ argv[p - 4] = S("-ss") /\ argv[p - 2] = S("-t") THEN SubSeq(argv, p - 4, p - 1)
  ELSE IF p > 2 /\ argv[p - 2] = S("-ss") THEN SubSeq(argv, p - 2, p - 1)
  ELSE <<>>

\* Every layer's first input is trimmed as its Foreground's trim pair says
TrimFlagsFromForeground ==
  Compiled =>
    \A i \in 0..(Len(CompiledLayers) - 1) :
      TrimBefore(CompiledArgv, InputPosition(CompiledArgv, FirstInput(CompiledLayers, i)))
        = getSourceTrimArgs(fgs[CompiledLayers[i + 1].fg])

\* Compositions c and d differ in nothing but what LayerHandle.subclip wrote
DifferOnlyInHandleSubclip(c, d) ==
  /\ comps[c].background = comps[d].background
  /\ comps[c].canvasHint = comps[d].canvasHint
  /\ comps[c].explicitDuration = comps[d].explicitDuration
  /\ Len(comps[c].layers) = Len(comps[d].layers)
  /\ \A k \in 1..Len(comps[c].layers) :
       [layers[comps[c].layers[k]] EXCEPT !.source_trim = None]
         = [layers[comps[d].layers[k]] EXCEPT !.source_trim = None]

Subclipped == {f \in FgIds : IsSome(fgs[f].sourceTrim)}

\* Compositions on a colour or a video background, layers of a probed
\* foreground and of its subclips, with or without an explicit duration
NextShort ==
  \/ New({Some(ColorBg), Some(VideoBg)})
  \/ FgSubclip({WebmFg}, {<<Sec(1), Some(Sec(10))>>, <<0, None>>})
  \/ Add({WebmFg} \cup Subclipped)
  \/ SetDuration({Sec(7)})
  \/ DryRun

SpecShort == Init /\ [][NextShort]_vars

\* The composition compiled last has layers, all of subclipped foregrounds,
\* a background that is no video, and no explicit duration
OnlySubclippedLayers ==
  /\ Compiled
  /\ Len(CompiledLayers) >= 1
  /\ \A i \in 1..Len(CompiledLayers) : CompiledLayers[i].fg \in Subclipped
  /\ IsSome(CompiledComp.background)
  /\ bgs[Get(CompiledComp.background)].kind # "video"
  /\ ~IsSome(CompiledComp.explicitDuration)

NextProgress ==
  \/ New({None, Some(ColorBg)})
  \/ Add({WebmFg})
  \/ ToFile({h264})
  \/ Stderr(Chunks)
  \/ Close
  \/ Error

SpecProgress == Init /\ [][NextProgress]_vars

\* toFile has been called with a progress callback
ProgressAsked == runs > 0 /\ proc.onProgress

\* The positions of an event in the log of the run
EventAt(e) == {k \in 1..Len(proc.events) : proc.events[k] = e}

\* C30 as stated: during one toFile call onProgress('processing') is invoked
\* exactly once.
C30_ProcessingExactlyOnce ==
  ProgressAsked => CountOf(progress, "processing") = 1

\* C30: during a toFile call whose compilation succeeded, so that _run is
\* reached, onProgress('processing') is invoked exactly once and before the
\* media tool is spawned; a call whose compilation throws reports nothing and
\* spawns nothing.  onProgress('completed') is invoked at most once, only
\* after the tool closed with exit code 0 and before the promise resolves;
\* after a nonzero exit or a spawn error it is never reported.
C30_ProgressOfOneRun ==
  ProgressAsked =>
    /\ progress = SelectSeq(proc.events, LAMBDA e : e \in {"processing", "completed"})
    /\ IF proc.state = "idle"
       THEN /\ proc.promise[1] = "rejected"
            /\ progress = <<>>
            /\ spawned = 0
       ELSE /\ CountOf(progress, "processing") = 1
            /\ spawned = 1
            /\ \A p \in EventAt("processing") : \A q \in EventAt("spawn") : p < q
    /\ CountOf(progress, "completed") <= 1
    /\ \A k \in EventAt("completed") :
         /\ proc.state = "closed"
         /\ proc.exit = Some(0)
         /\ \A q \in EventAt("spawn") : q < k
         /\ EventAt("resolve") = {k + 1}
    /\ proc.promise[1] = "resolved" => EventAt("completed") # {}
    /\ (proc.spawnError \/ (IsSome(proc.exit) /\ proc.exit # Some(0)))
         => CountOf(progress, "completed") = 0

\* An export with a callback whose tool has closed with 0: both reports made
C30_Witness ==
  /\ ProgressAsked
  /\ proc.state = "closed"
  /\ proc.exit = Some(0)
  /\ progress = <<"processing", "completed">>
  /\ proc.promise[1] = "resolved"
====
